---- MODULE Spec2Model ----
(***************************************************************************)
(* Model of the order bulk-create mutation                                 *)
(* (saleor/graphql/order/bulk_mutations/order_bulk_create.py).             *)
(*                                                                         *)
(* One call of OrderBulkCreate.perform_mutation is a sequential program;   *)
(* pc is its position.  The request (orders_input, error_policy,           *)
(* stock_update_policy) and the database content it reads are chosen in    *)
(* the initial state.  The call runs in one database transaction:          *)
(* db_orders and db_stocks are the database as the call sees it, committed *)
(* is the database as it is outside the transaction.                       *)
(* Python None is <<>> for objects (Some(x) is <<x>>)                      *)
(* and 0 for identifiers (real identifiers are >= 1).  Money amounts are   *)
(* integers counted in minor currency units.  Dates are minutes relative   *)
(* to timezone.now().                                                      *)
(***************************************************************************)
EXTENDS Integers, Sequences, FiniteSets

VARIABLES
    orders_input,        \* data["orders"]
    error_policy,        \* data["error_policy"]
    stock_update_policy, \* data["stock_update_policy"]
    db,                  \* entity tables read by get_all_instances
    db_stocks,           \* warehouse_stock rows: <<variant, warehouse>> -> row
    db_orders,           \* orders (with lines, fulfillment lines) written by the call
    committed,           \* the database outside the call's transaction
    on_commit,           \* order_bulk_created calls deferred to the commit
    object_storage,      \* lookup cache built by get_all_instances
    orders,              \* List[OrderBulkClass]
    pc,                  \* position in perform_mutation
    idx,                 \* loop index of the running per-order loop
    stocks_map,          \* handle_stocks: shared snapshot
    stocks,              \* value returned by handle_stocks
    events,              \* order_bulk_created calls, in order
    response,            \* value returned by perform_mutation
    max_size,            \* RedisBuffer.max_size
    batch_size,          \* RedisBuffer.batch_size
    redis,               \* the Redis list at RedisBuffer.key, head first
    clients,             \* per client: the running call, its pipeline and replies
    last_event,          \* events are numbered as they are put
    put_returns,         \* the values returned by put_events, in order
    removed,             \* the values RPOP took from the list, in order
    returned,            \* the events returned by pop_events and pop_event, in order
    calls,               \* OrderBulkCreate calls running in transactions of their own
    initial_stocks,      \* the warehouse_stock rows before those calls
    stock_table,         \* the committed warehouse_stock rows those calls share
    order_table          \* the committed orders of those calls

\* the request and the tables it reads
request == <<orders_input, error_policy, stock_update_policy, db>>

\* the observability buffer, which the mutation does not touch
buffer == <<max_size, batch_size, redis, clients, last_event, put_returns, removed, returned>>

\* the state of perform_mutation, which the buffer does not touch
mutation == <<orders_input, error_policy, stock_update_policy, db, db_stocks, db_orders,
              committed, on_commit, object_storage, orders, pc, idx, stocks_map, stocks,
              events, response>>

\* OrderBulkCreate calls that run at the same time
concurrent == <<calls, initial_stocks, stock_table, order_table>>

vars == <<mutation, buffer, concurrent>>

-----------------------------------------------------------------------------
(* Program constants *)

MINUTES_DIFF == 5
MAX_ORDERS == 50
MAX_NOTE_LENGTH == 200

REJECT_EVERYTHING == "reject_everything"
REJECT_FAILED_ROWS == "reject_failed_rows"
IGNORE_FAILED == "ignore_failed"
ErrorPolicies == {REJECT_EVERYTHING, REJECT_FAILED_ROWS, IGNORE_FAILED}

UPDATE == "update"
FORCE == "force"
SKIP == "skip"
StockUpdatePolicies == {UPDATE, FORCE, SKIP}

UNFULFILLED == "unfulfilled"
PARTIALLY_FULFILLED == "partially fulfilled"
FULFILLED == "fulfilled"

-----------------------------------------------------------------------------
(* Generic helpers *)

None == <<>>
Some(x) == <<x>>
IsNone(o) == o = <<>>

RECURSIVE SumSeq(_)
SumSeq(s) == IF s = <<>> THEN 0 ELSE Head(s) + SumSeq(Tail(s))

RECURSIVE Flatten(_)
Flatten(ss) == IF ss = <<>> THEN <<>> ELSE Head(ss) \o Flatten(Tail(ss))

SeqsUpTo(S, n) == UNION {[1..k -> S] : k \in 0..n}
SeqsFromTo(S, m, n) == UNION {[1..k -> S] : k \in m..n}

Range(s) == {s[k] : k \in 1..Len(s)}

\* a local variable: v is bound once and Op is the code that follows
Let(v, Op(_)) == Op(v)

-----------------------------------------------------------------------------
(* Errors: OrderBulkError(code, path).  A dotted path such as              *)
(* "fulfillments.[0].lines.[1].warehouse" is the record                     *)
(* [field, index, sub, index2, leaf]; an absent index is -1, an absent      *)
(* name is "".                                                              *)

Path(field, index, sub, index2, leaf) ==
    [field |-> field, index |-> index, sub |-> sub, index2 |-> index2, leaf |-> leaf]

P1(field) == Path(field, -1, "", -1, "")
P2(field, index) == Path(field, index, "", -1, "")
P3(field, index, leaf) == Path(field, index, "", -1, leaf)
NoPath == Path("", -1, "", -1, "")

OrderBulkError(code, path) == [code |-> code, path |-> path]

HasCode(errs, code) == \E k \in 1..Len(errs) : errs[k].code = code
HasError(errs, code, path) == \E k \in 1..Len(errs) : errs[k] = OrderBulkError(code, path)

-----------------------------------------------------------------------------
(* is_datetime_valid: date < timezone.now() + timedelta(minutes=MINUTES_DIFF) *)

is_datetime_valid(date) == date < 0 + MINUTES_DIFF

-----------------------------------------------------------------------------
(* Lookup cache.  A key "<Model>.<field>.<value>" is the record             *)
(* [model, field, value]; str(id) and a string key field with the same      *)
(* digits give the same key, so both are integers here.  An entity is       *)
(* [model, id, name, external_reference], name being the model's second     *)
(* key field (sku, email, slug, number).                                    *)

Key(model, field, value) == [model |-> model, field |-> field, value |-> value]
Entity(model, id, name, ext) ==
    [model |-> model, id |-> id, name |-> name, external_reference |-> ext]

Lookup(storage, key) == IF key \in DOMAIN storage THEN Some(storage[key]) ELSE None

Put(storage, key, e) ==
    [k \in DOMAIN storage \cup {key} |-> IF k = key THEN e ELSE storage[k]]

RECURSIVE PutAll(_, _)
PutAll(storage, entries) ==
    IF entries = <<>> THEN storage
    ELSE PutAll(Put(storage, Head(entries)[1], Head(entries)[2]), Tail(entries))

\* a queryset iterated in primary-key order
RECURSIVE ById(_)
ById(S) ==
    IF S = {} THEN <<>>
    ELSE LET m == CHOOSE x \in S : \A y \in S : x.id <= y.id
         IN <<m>> \o ById(S \ {m})

EmptyStorage == [k \in {} |-> Entity("", 0, 0, 0)]

\* keys collected from the input, Nones dropped
InputKeys(input) ==
    LET os == Range(input)
        ls == UNION {Range(o.lines) : o \in os}
        fls == UNION {UNION {Range(f) : f \in Range(o.fulfillments)} : o \in os}
    IN [User_id |-> {o.user.id : o \in os} \ {0},
        User_email |-> {o.user.email : o \in os} \ {0},
        User_external_reference |-> {o.user.external_reference : o \in os} \ {0},
        Channel_slug |-> {o.channel : o \in os} \ {0},
        Warehouse_id |-> ({o.delivery_method.warehouse_id : o \in os}
                          \cup {l.warehouse : l \in ls}
                          \cup {l.warehouse : l \in fls}) \ {0},
        ShippingMethod_id |-> {o.delivery_method.shipping_method_id : o \in os} \ {0},
        TaxClass_id |-> ({o.delivery_method.shipping_tax_class_id : o \in os}
                         \cup {l.tax_class_id : l \in ls}) \ {0},
        Order_number |-> {o.number : o \in os} \ {0},
        ProductVariant_id |-> ({l.variant_id : l \in ls}
                               \cup {l.variant_id : l \in fls}) \ {0},
        ProductVariant_sku |-> ({l.variant_sku : l \in ls}
                                \cup {l.variant_sku : l \in fls}) \ {0},
        ProductVariant_external_reference |->
            ({l.variant_external_reference : l \in ls}
             \cup {l.variant_external_reference : l \in fls}) \ {0},
        GiftCard_code |-> UNION {Range(o.gift_cards) : o \in os}]

RECURSIVE UserEntries(_)
UserEntries(us) ==
    IF us = <<>> THEN <<>>
    ELSE LET u == Head(us)
         IN <<<<Key("User", "id", u.id), u>>, <<Key("User", "email", u.name), u>>>>
            \o (IF u.external_reference # 0
                THEN <<<<Key("User", "external_reference", u.external_reference), u>>>>
                ELSE <<>>)
            \o UserEntries(Tail(us))

\* the SKU entry is written under "ProductVariant.id.<sku>", as in the source
RECURSIVE VariantEntries(_)
VariantEntries(vs) ==
    IF vs = <<>> THEN <<>>
    ELSE LET v == Head(vs)
         IN <<<<Key("ProductVariant", "id", v.id), v>>>>
            \o (IF v.name # 0 THEN <<<<Key("ProductVariant", "id", v.name), v>>>> ELSE <<>>)
            \o (IF v.external_reference # 0
                THEN <<<<Key("ProductVariant", "external_reference",
                             v.external_reference), v>>>>
                ELSE <<>>)
            \o VariantEntries(Tail(vs))

RECURSIVE FieldEntries(_, _)
FieldEntries(es, field) ==
    IF es = <<>> THEN <<>>
    ELSE LET e == Head(es)
         IN <<<<Key(e.model, field, IF field = "id" THEN e.id ELSE e.name), e>>>>
            \o FieldEntries(Tail(es), field)

get_all_instances(input, d) ==
    LET keys == InputKeys(input)
        users == {u \in d.users : \/ u.id \in keys.User_id
                                  \/ u.name \in keys.User_email
                                  \/ u.external_reference \in keys.User_external_reference}
        variants == {v \in d.variants :
                        \/ v.id \in keys.ProductVariant_id
                        \/ v.name \in keys.ProductVariant_sku
                        \/ v.external_reference \in keys.ProductVariant_external_reference}
        channels == {c \in d.channels : c.name \in keys.Channel_slug}
        warehouses == {w \in d.warehouses : w.id \in keys.Warehouse_id}
        shipping_methods == {m \in d.shipping_methods : m.id \in keys.ShippingMethod_id}
        tax_classes == {t \in d.tax_classes : t.id \in keys.TaxClass_id}
        existing == {o \in d.orders : o.name \in keys.Order_number}
        gift_cards == {g \in d.gift_cards : g.name \in keys.GiftCard_code}
    IN PutAll(EmptyStorage,
              UserEntries(ById(users))
              \o VariantEntries(ById(variants))
              \o FieldEntries(ById(channels), "slug")
              \o FieldEntries(ById(existing), "number")
              \o FieldEntries(ById(warehouses), "id")
              \o FieldEntries(ById(shipping_methods), "id")
              \o FieldEntries(ById(tax_classes), "id")
              \o FieldEntries(ById(gift_cards), "code"))

-----------------------------------------------------------------------------
(* get_instance (bulk_mutations/utils.py): resolves one entity from the     *)
(* identifiers of key_map that the input provides.  ids is the sequence of  *)
(* <<input value, entity field>> in key_map order.  Result: [instance,      *)
(* code], code "" when an instance is returned.                             *)

get_instance(ids, model, storage) ==
    Let({k \in 1..Len(ids) : ids[k][1] # 0}, LAMBDA given :
        IF Cardinality(given) > 1
        THEN [instance |-> None, code |-> "TOO_MANY_IDENTIFIERS"]
        ELSE IF given = {}
        THEN [instance |-> None, code |-> "REQUIRED"]
        ELSE Let(CHOOSE k \in given : TRUE, LAMBDA k :
             Let(Lookup(storage, Key(model, ids[k][2], ids[k][1])), LAMBDA found :
                 IF IsNone(found)
                 THEN [instance |-> None, code |-> "NOT_FOUND"]
                 ELSE [instance |-> found, code |-> ""])))

\* get_instance_with_errors: the ValidationError becomes an entry of errors
get_instance_with_errors(ids, model, errors, storage, path) ==
    Let(get_instance(ids, model, storage), LAMBDA r :
        [instance |-> r.instance,
         errors |-> IF r.code = "" THEN errors
                    ELSE Append(errors, OrderBulkError(r.code, path))])

VariantIds(input) ==
    <<<<input.variant_id, "id">>,
      <<input.variant_external_reference, "external_reference">>,
      <<input.variant_sku, "sku">>>>

-----------------------------------------------------------------------------
(* quantize_price (core/prices.py): Decimal.quantize to the currency's     *)
(* minor unit, rounding half to even.  The amount is num / den in minor     *)
(* units, den >= 1.                                                         *)

quantize_price(num, den) ==
    LET q == num \div den
        r == num % den
    IN IF 2 * r < den THEN q
       ELSE IF 2 * r > den THEN q + 1
       ELSE IF q % 2 = 0 THEN q ELSE q + 1

-----------------------------------------------------------------------------
(* OrderBulkClass *)

NewOrderBulkClass ==
    [order |-> None, errors |-> <<>>, lines |-> <<>>, notes |-> <<>>,
     fulfillments |-> <<>>, invoices |-> <<>>,
     user |-> None, channel |-> None, billing_address |-> None,
     gift_cards |-> <<>>,
     is_critical_error |-> FALSE]

all_fulfillment_lines(order) == Flatten([k \in 1..Len(order.fulfillments) |->
                                            order.fulfillments[k].lines])

\* orderline_quantityfulfilled_map.get(line_id, 0)
RECURSIVE QuantityOf(_, _)
QuantityOf(flines, line_id) ==
    IF flines = <<>> THEN 0
    ELSE (IF Head(flines).order_line = line_id THEN Head(flines).quantity ELSE 0)
         + QuantityOf(Tail(flines), line_id)

orderline_quantityfulfilled(order, line_id) ==
    QuantityOf(all_fulfillment_lines(order), line_id)

total_order_quantity(order) ==
    SumSeq([k \in 1..Len(order.lines) |-> order.lines[k].quantity])

total_fulfillment_quantity(order) ==
    LET fl == all_fulfillment_lines(order)
    IN SumSeq([k \in 1..Len(fl) |-> fl[k].quantity])

unique_variant_ids(order) == {order.lines[k].variant_id : k \in 1..Len(order.lines)}
unique_warehouse_ids(order) == {order.lines[k].warehouse : k \in 1..Len(order.lines)}

\* the property order_lines_duplicates; no code reads it
order_lines_duplicates(order) ==
    Cardinality({<<order.lines[k].variant_id, order.lines[k].warehouse>>
                    : k \in 1..Len(order.lines)}) # Len(order.lines)

-----------------------------------------------------------------------------
(* validate_order_input *)

validate_order_input(order_input, order, storage) ==
    Let(/\ order_input.number # 0
        /\ ~IsNone(Lookup(storage, Key("Order", "number", order_input.number))),
        LAMBDA exists :
        [order EXCEPT
            !.errors =
                order.errors
                \o (IF ~is_datetime_valid(order_input.created_at)
                    THEN <<OrderBulkError("FUTURE_DATE", P1("created_at"))>> ELSE <<>>)
                \o (IF order_input.redirect_url = "bad"
                    THEN <<OrderBulkError("INVALID", P1("redirect_url"))>> ELSE <<>>)
                \o (IF order_input.weight < 0
                    THEN <<OrderBulkError("INVALID", P1("weight"))>> ELSE <<>>)
                \o (IF exists THEN <<OrderBulkError("UNIQUE", P1("number"))>> ELSE <<>>),
            !.is_critical_error = order.is_critical_error \/ exists])

(* validate_order_status *)

validate_order_status(status, order) ==
    Let(total_order_quantity(order), LAMBDA O :
    Let(total_fulfillment_quantity(order), LAMBDA F :
        IF \/ F = 0 /\ status \in {PARTIALLY_FULFILLED, FULFILLED}
           \/ F > 0 /\ O - F > 0 /\ status \in {FULFILLED, UNFULFILLED}
           \/ O = F /\ status \in {PARTIALLY_FULFILLED, UNFULFILLED}
        THEN [order EXCEPT !.errors = Append(@, OrderBulkError("INVALID", P1("status")))]
        ELSE order))

-----------------------------------------------------------------------------
(* get_instances_related_to_order: user, channel and billing address.      *)
(* validate_address is abstracted to the flag billing_address_valid.        *)

\* "for code in order_input.get("gift_cards", [])" from the k-th code on
RECURSIVE GiftCards(_, _, _, _, _)
GiftCards(codes, k, code_index, order, storage) ==
    IF k > Len(codes) THEN order
    ELSE
    Let(Lookup(storage, Key("GiftCard", "code", codes[k])), LAMBDA gift_card :
        IF ~IsNone(gift_card)
        THEN GiftCards(codes, k + 1, code_index + 1,
                       [order EXCEPT !.gift_cards = Append(@, gift_card[1])], storage)
        ELSE GiftCards(codes, k + 1, code_index,
                       [order EXCEPT !.errors =
                           Append(@, OrderBulkError("NOT_FOUND",
                                                    P2("gift_cards", code_index)))],
                       storage))

get_instances_related_to_order(order_input, order, storage) ==
    Let(get_instance_with_errors(
            <<<<order_input.user.id, "id">>, <<order_input.user.email, "email">>,
              <<order_input.user.external_reference, "external_reference">>>>,
            "User", order.errors, storage, P1("user")), LAMBDA u :
    \* a user that is not found is accepted when an email is provided
    Let(IF /\ IsNone(u.instance)
           /\ u.errors[Len(u.errors)].code = "NOT_FOUND"
           /\ order_input.user.email # 0
        THEN SubSeq(u.errors, 1, Len(u.errors) - 1)
        ELSE u.errors, LAMBDA eu :
    Let(get_instance_with_errors(<<<<order_input.channel, "slug">>>>,
                                 "Channel", eu, storage, NoPath), LAMBDA c :
        [GiftCards(order_input.gift_cards, 1, 0,
                   [order EXCEPT
                       !.errors = IF order_input.billing_address_valid THEN c.errors
                                  ELSE Append(c.errors,
                                              OrderBulkError("INVALID",
                                                             P1("billing_address")))],
                   storage)
         EXCEPT
            !.user = u.instance,
            !.channel = c.instance,
            !.billing_address = IF order_input.billing_address_valid
                                THEN Some("address") ELSE None])))

(* get_delivery_method: [delivery_method, errors] *)

get_delivery_method(input, errors, storage) ==
    Let(input.warehouse_id # 0, LAMBDA is_warehouse_delivery :
    Let(input.shipping_method_id # 0, LAMBDA is_shipping_delivery :
    Let(IF is_warehouse_delivery /\ is_shipping_delivery
        THEN Append(errors, OrderBulkError("TOO_MANY_IDENTIFIERS", P1("delivery_method")))
        ELSE errors, LAMBDA e0 :
    Let(IF is_warehouse_delivery
        THEN get_instance_with_errors(<<<<input.warehouse_id, "id">>>>, "Warehouse",
                                      e0, storage, P1("delivery_method"))
        ELSE [instance |-> None, errors |-> e0], LAMBDA w :
    Let(IF is_shipping_delivery
        THEN get_instance_with_errors(<<<<input.shipping_method_id, "id">>>>,
                                      "ShippingMethod", w.errors, storage,
                                      P1("delivery_method"))
        ELSE [instance |-> None, errors |-> w.errors], LAMBDA m :
    Let(IF is_shipping_delivery
        THEN get_instance_with_errors(<<<<input.shipping_tax_class_id, "id">>>>,
                                      "TaxClass", m.errors, storage,
                                      P1("delivery_method"))
        ELSE [instance |-> None, errors |-> m.errors], LAMBDA t :
        IF IsNone(w.instance) /\ IsNone(m.instance)
        THEN [delivery_method |-> None,
              errors |-> Append(t.errors,
                                OrderBulkError("REQUIRED", P1("delivery_method")))]
        ELSE [delivery_method |-> Some([warehouse |-> w.instance,
                                        shipping_method |-> m.instance,
                                        shipping_tax_class |-> t.instance]),
              errors |-> t.errors]))))))

-----------------------------------------------------------------------------
(* make_order_line_calculations: [amounts, errors]; amounts is None on an   *)
(* exit error.                                                              *)

\* variant of LineAmounts: the net unit price is taken from the gross total
LineAmounts_NetFromGross(gross_amount, net_amount, undiscounted_gross_amount, undiscounted_net_amount, quantity) ==
    [total_gross |-> gross_amount,
     total_net |-> net_amount,
     unit_gross |-> quantize_price(gross_amount, quantity),
     unit_net |-> quantize_price(gross_amount, quantity),
     undiscounted_total_gross |-> undiscounted_gross_amount,
     undiscounted_total_net |-> undiscounted_net_amount,
     undiscounted_unit_gross |-> quantize_price(undiscounted_gross_amount, quantity),
     undiscounted_unit_net |-> quantize_price(undiscounted_net_amount, quantity),
     quantity |-> quantity]

\* the unit prices and the LineAmounts returned
LineAmounts(gross_amount, net_amount, undiscounted_gross_amount, undiscounted_net_amount, quantity) ==
    [total_gross |-> gross_amount,
     total_net |-> net_amount,
     unit_gross |-> quantize_price(gross_amount, quantity),
     unit_net |-> quantize_price(net_amount, quantity),
     undiscounted_total_gross |-> undiscounted_gross_amount,
     undiscounted_total_net |-> undiscounted_net_amount,
     undiscounted_unit_gross |-> quantize_price(undiscounted_gross_amount, quantity),
     undiscounted_unit_net |-> quantize_price(undiscounted_net_amount, quantity),
     quantity |-> quantity]

\* variant of make_order_line_calculations: the undiscounted price is not
\* compared
make_order_line_calculations_TotalOnly(line_input, errors, index) ==
    LET gross_amount == line_input.total_price.gross
        net_amount == line_input.total_price.net
        quantity == line_input.quantity
        bad_quantity == quantity < 1
        bad_total == gross_amount < net_amount
        errs == errors
                \o (IF bad_quantity
                    THEN <<OrderBulkError("INVALID_QUANTITY", P3("lines", index, "quantity"))>>
                    ELSE <<>>)
                \o (IF bad_total
                    THEN <<OrderBulkError("PRICE_ERROR", P3("lines", index, "total_price"))>>
                    ELSE <<>>)
    IN IF bad_quantity \/ bad_total
       THEN [amounts |-> None, errors |-> errs]
       ELSE [amounts |-> Some(LineAmounts(gross_amount, net_amount,
                                          line_input.undiscounted_total_price.gross,
                                          line_input.undiscounted_total_price.net,
                                          quantity)),
             errors |-> errs]

make_order_line_calculations(line_input, errors, index) ==
    LET gross_amount == line_input.total_price.gross
        net_amount == line_input.total_price.net
        undiscounted_gross_amount == line_input.undiscounted_total_price.gross
        undiscounted_net_amount == line_input.undiscounted_total_price.net
        quantity == line_input.quantity
        bad_quantity == quantity < 1
        bad_total == gross_amount < net_amount
        bad_undiscounted == undiscounted_gross_amount < undiscounted_net_amount
        errs == errors
                \o (IF bad_quantity
                    THEN <<OrderBulkError("INVALID_QUANTITY", P3("lines", index, "quantity"))>>
                    ELSE <<>>)
                \o (IF bad_total
                    THEN <<OrderBulkError("PRICE_ERROR", P3("lines", index, "total_price"))>>
                    ELSE <<>>)
                \o (IF bad_undiscounted
                    THEN <<OrderBulkError("PRICE_ERROR",
                                          P3("lines", index, "undiscounted_total_price"))>>
                    ELSE <<>>)
        is_exit_error == bad_quantity \/ bad_total \/ bad_undiscounted
    IN IF is_exit_error
       THEN [amounts |-> None, errors |-> errs]
       ELSE [amounts |-> Some(LineAmounts(gross_amount, net_amount,
                                          undiscounted_gross_amount,
                                          undiscounted_net_amount, quantity)),
             errors |-> errs]

(* create_single_order_line: [line, errors]; line is None when the line     *)
(* cannot be created.  The line's id is its position in the order.          *)

create_single_order_line(order_line_input, errors, storage, index) ==
    Let(get_instance_with_errors(VariantIds(order_line_input), "ProductVariant",
                                 errors, storage, P2("lines", index)), LAMBDA v :
    IF IsNone(v.instance) THEN [line |-> None, errors |-> v.errors]
    ELSE
    Let(get_instance_with_errors(<<<<order_line_input.warehouse, "id">>>>, "Warehouse",
                                 v.errors, storage, P2("lines", index)), LAMBDA w :
    IF IsNone(w.instance) THEN [line |-> None, errors |-> w.errors]
    ELSE
    Let(get_instance_with_errors(<<<<order_line_input.tax_class_id, "id">>>>,
                                 "TaxClass", w.errors, storage, P2("lines", index)),
        LAMBDA t :
    Let(make_order_line_calculations(order_line_input, t.errors, index), LAMBDA a :
    IF IsNone(a.amounts) THEN [line |-> None, errors |-> a.errors]
    ELSE [line |-> Some([id |-> index,
                         variant_id |-> v.instance[1].id,
                         warehouse |-> w.instance[1].id,
                         quantity |-> a.amounts[1].quantity,
                         quantity_fulfilled |-> 0,
                         amounts |-> a.amounts[1]]),
          errors |-> IF ~is_datetime_valid(order_line_input.created_at)
                     THEN Append(a.errors,
                                 OrderBulkError("FUTURE_DATE",
                                                P3("lines", index, "created_at")))
                     ELSE a.errors]))))

(* create_single_fulfillment: [fulfillment, errors]; the loop over the      *)
(* input lines from position k (1-based), lines being those created so far. *)

\* variant of LineMismatch: only the warehouses are compared
LineMismatch_WarehouseOnly(order_line, variant_id, warehouse) ==
    IF order_line.warehouse # warehouse THEN "warehouse" ELSE ""

\* the field on which a fulfillment line differs from its order line, the
\* warehouse being compared first; "" when they agree
LineMismatch(order_line, variant_id, warehouse) ==
    IF order_line.warehouse # warehouse THEN "warehouse"
    ELSE IF order_line.variant_id # variant_id THEN "variant_id"
    ELSE ""

\* "errors.append(...); return None" of create_single_fulfillment
FulfillmentError(errors, code, index, line_index, leaf) ==
    [fulfillment |-> None,
     errors |-> Append(errors, OrderBulkError(code, Path("fulfillments", index, "lines",
                                                         line_index, leaf)))]

RECURSIVE FulfillmentLines(_, _, _, _, _, _, _)
FulfillmentLines(lines_input, k, lines, order_lines, errors, storage, index) ==
    IF k > Len(lines_input)
    THEN [fulfillment |-> Some([lines |-> lines, fulfillment_order |-> 1]),
          errors |-> errors]
    ELSE
    Let(lines_input[k], LAMBDA line_input :
    Let(k - 1, LAMBDA line_index :
    Let(get_instance_with_errors(VariantIds(line_input), "ProductVariant", errors, storage,
                                 Path("fulfillments", index, "lines", line_index, "")),
        LAMBDA v :
    IF IsNone(v.instance) THEN [fulfillment |-> None, errors |-> v.errors]
    ELSE
    Let(get_instance_with_errors(<<<<line_input.warehouse, "id">>>>, "Warehouse",
                                 v.errors, storage,
                                 Path("fulfillments", index, "lines", line_index, "")),
        LAMBDA w :
    IF IsNone(w.instance) THEN [fulfillment |-> None, errors |-> w.errors]
    ELSE
    Let(line_input.order_line_index, LAMBDA order_line_index :
    IF order_line_index < 0
    THEN FulfillmentError(w.errors, "NEGATIVE_INDEX", index, line_index,
                          "order_line_index")
    ELSE IF order_line_index >= Len(order_lines)
    THEN FulfillmentError(w.errors, "NO_RELATED_ORDER_LINE", index, line_index,
                          "order_line_index")
    ELSE
    Let(order_lines[order_line_index + 1], LAMBDA order_line :
    Let(LineMismatch(order_line, v.instance[1].id, w.instance[1].id), LAMBDA mismatch :
    IF mismatch # ""
    THEN FulfillmentError(w.errors, "ORDER_LINE_FULFILLMENT_LINE_MISMATCH", index,
                          line_index, mismatch)
    ELSE FulfillmentLines(lines_input, k + 1,
                          Append(lines, [order_line |-> order_line.id,
                                         variant_id |-> v.instance[1].id,
                                         warehouse |-> w.instance[1].id,
                                         quantity |-> line_input.quantity,
                                         fulfillment_id |-> 0]),
                          order_lines, w.errors, storage, index))))))))

create_single_fulfillment(fulfillment_input, order_lines, errors, storage, index) ==
    FulfillmentLines(fulfillment_input, 1, <<>>, order_lines, errors, storage, index)

-----------------------------------------------------------------------------
(* Exceptions.  An operator whose code can raise returns Raise(exception)   *)
(* in place of its value; the exception leaves perform_mutation.            *)

Raise(exception) == [raised |-> exception]
IsRaised(value) == "raised" \in DOMAIN value

(* make_order_calculations: the shipping amounts and the lookup cache it    *)
(* leaves.  shipping_price gross / net - 1 is a Decimal division: a net of  *)
(* 0 raises decimal.DivisionByZero (InvalidOperation when gross is 0 as     *)
(* well).  Without a shipping_price in the input the price is the one       *)
(* cached under "shipping_price.<shipping method id>" or else the price of  *)
(* the channel listing of the method in the order's channel; a price that   *)
(* is not 0 is written to the cache.  shipping_tax_rate is 0.               *)

\* ShippingMethodChannelListing...filter(shipping_method_id, channel_id).first()
ChannelListingPrice(shipping_method_id, channel_id) ==
    IF \E l \in db.channel_listings :
            l.shipping_method_id = shipping_method_id /\ l.channel_id = channel_id
    THEN Some((CHOOSE l \in db.channel_listings :
                    l.shipping_method_id = shipping_method_id
                    /\ l.channel_id = channel_id).price_amount)
    ELSE None

\* "object_storage.get(lookup_key) or (...)"
Or(a, b) == IF ~IsNone(a) /\ a[1] # 0 THEN a ELSE b

make_order_calculations(delivery_method, channel, delivery_input, storage) ==
    IF ~IsNone(delivery_method.shipping_method) /\ ~IsNone(delivery_input.shipping_price)
    THEN IF delivery_input.shipping_price[1].net = 0
         THEN Raise(IF delivery_input.shipping_price[1].gross = 0
                    THEN "InvalidOperation" ELSE "DivisionByZero")
         ELSE [shipping_price_gross |-> delivery_input.shipping_price[1].gross,
               shipping_price_net |-> delivery_input.shipping_price[1].net,
               object_storage |-> storage]
    ELSE IF ~IsNone(delivery_method.shipping_method)
    THEN
    Let(Key("shipping_price", "", delivery_method.shipping_method[1].id), LAMBDA lookup_key :
    Let(Or(Lookup(storage, lookup_key),
           ChannelListingPrice(delivery_method.shipping_method[1].id, channel.id)),
        LAMBDA db_price_amount :
        IF ~IsNone(db_price_amount) /\ db_price_amount[1] # 0
        THEN [shipping_price_gross |-> db_price_amount[1],
              shipping_price_net |-> db_price_amount[1],
              object_storage |-> Put(storage, lookup_key, db_price_amount[1])]
        ELSE [shipping_price_gross |-> 0, shipping_price_net |-> 0,
              object_storage |-> storage]))
    ELSE [shipping_price_gross |-> 0, shipping_price_net |-> 0, object_storage |-> storage]

-----------------------------------------------------------------------------
(* create_single_order *)

\* the loop "create lines" from input position k
RECURSIVE CreateLines(_, _, _, _)
CreateLines(lines_input, k, order, storage) ==
    IF k > Len(lines_input) THEN order
    ELSE
    Let(create_single_order_line(lines_input[k], order.errors, storage, k - 1), LAMBDA r :
        CreateLines(lines_input, k + 1,
                    IF IsNone(r.line)
                    THEN [order EXCEPT !.errors = r.errors, !.is_critical_error = TRUE]
                    ELSE [order EXCEPT !.errors = r.errors,
                                       !.lines = Append(@, r.line[1])],
                    storage))

\* the loop "create fulfillments" from input position k
RECURSIVE CreateFulfillments(_, _, _, _)
CreateFulfillments(fulfillments_input, k, order, storage) ==
    IF k > Len(fulfillments_input) THEN order
    ELSE
    Let(create_single_fulfillment(fulfillments_input[k], order.lines, order.errors,
                                  storage, k - 1), LAMBDA r :
        CreateFulfillments(fulfillments_input, k + 1,
                           IF IsNone(r.fulfillment)
                           THEN [order EXCEPT !.errors = r.errors,
                                              !.is_critical_error = TRUE]
                           ELSE [order EXCEPT !.errors = r.errors,
                                              !.fulfillments = Append(@, r.fulfillment[1])],
                           storage))

(* create_single_note: [note, errors].  A note is its date, None when the   *)
(* input gives none; the message is its length.  The note names no user and *)
(* no app.                                                                  *)

create_single_note(note_input, errors, index) ==
    IF note_input.message > MAX_NOTE_LENGTH
    THEN [note |-> None,
          errors |-> Append(errors, OrderBulkError("NOTE_LENGTH",
                                                   P3("notes", index, "message")))]
    ELSE IF ~IsNone(note_input.date) /\ ~is_datetime_valid(note_input.date[1])
    THEN [note |-> Some([date |-> Some(0)]),
          errors |-> Append(errors, OrderBulkError("FUTURE_DATE",
                                                   P3("notes", index, "date")))]
    ELSE [note |-> Some([date |-> note_input.date]), errors |-> errors]

\* the loop "create notes" from input position k
RECURSIVE CreateNotes(_, _, _)
CreateNotes(notes_input, k, order) ==
    IF k > Len(notes_input) THEN order
    ELSE
    Let(create_single_note(notes_input[k], order.errors, k - 1), LAMBDA r :
        CreateNotes(notes_input, k + 1,
                    IF IsNone(r.note)
                    THEN [order EXCEPT !.errors = r.errors]
                    ELSE [order EXCEPT !.errors = r.errors,
                                       !.notes = Append(@, r.note[1])]))

(* create_single_invoice: [invoice, errors].  An invoice is the created_at  *)
(* given to Invoice(), None when the input date is refused; the input gives *)
(* no url and no metadata.                                                  *)

create_single_invoice(invoice_input, errors, index) ==
    IF ~is_datetime_valid(invoice_input.created_at)
    THEN [invoice |-> [created_at |-> None],
          errors |-> Append(errors, OrderBulkError("FUTURE_DATE",
                                                   P3("invoices", index, "created_at")))]
    ELSE [invoice |-> [created_at |-> Some(invoice_input.created_at)], errors |-> errors]

\* the loop "create invoices" from input position k
RECURSIVE CreateInvoices(_, _, _)
CreateInvoices(invoices_input, k, order) ==
    IF k > Len(invoices_input) THEN order
    ELSE
    Let(create_single_invoice(invoices_input[k], order.errors, k - 1), LAMBDA r :
        CreateInvoices(invoices_input, k + 1,
                       [order EXCEPT !.errors = r.errors,
                                     !.invoices = Append(@, r.invoice)]))

\* the part of create_single_order after the lines are created
FinishSingleOrder(order_input, order2, storage, order_amounts) ==
    Let(CreateFulfillments(order_input.fulfillments, 1,
                           CreateNotes(order_input.notes, 1, order2), storage), LAMBDA order3 :
    IF order3.is_critical_error
    THEN [order3 EXCEPT !.order = None]
    ELSE
    Let(validate_order_status(order_input.status,
                              CreateInvoices(order_input.invoices, 1, order3)), LAMBDA order4 :
        [order4 EXCEPT
            !.order = Some([number |-> IF order_input.number # 0
                                       THEN order_input.number
                                       ELSE order4.order[1].number,
                            channel |-> order4.channel[1].id,
                            shipping_price_net_amount |-> order_amounts.shipping_price_net,
                            status |-> order_input.status])]))

\* default_number: the number Order() takes from the order number sequence,
\* different for every order and from every number given in the input
\* create_single_order and the lookup cache it leaves: [order, object_storage]
CreateSingleOrderStorage(order_input, storage, default_number) ==
    Let(validate_order_input(order_input, NewOrderBulkClass, storage), LAMBDA order0 :
    IF order0.is_critical_error THEN [order |-> order0, object_storage |-> storage]
    ELSE
    Let(get_instances_related_to_order(
            order_input,
            [order0 EXCEPT !.order = Some([number |-> default_number,
                                           channel |-> 0,
                                           shipping_price_net_amount |-> 0,
                                           status |-> ""])],
            storage), LAMBDA order1 :
    Let(get_delivery_method(order_input.delivery_method, order1.errors, storage),
        LAMBDA d :
    Let([order1 EXCEPT !.errors = d.errors], LAMBDA order1d :
    IF ~(/\ ~IsNone(d.delivery_method)
         /\ (~IsNone(order1.user) \/ order_input.user.email # 0)
         /\ ~IsNone(order1.channel)
         /\ ~IsNone(order1.billing_address))
    THEN [order |-> [order1d EXCEPT !.order = None], object_storage |-> storage]
    ELSE
    Let(CreateLines(order_input.lines, 1, order1d, storage), LAMBDA order2 :
    IF order2.is_critical_error
    THEN [order |-> [order2 EXCEPT !.order = None], object_storage |-> storage]
    ELSE
    Let(make_order_calculations(d.delivery_method[1], order1.channel[1],
                                order_input.delivery_method, storage),
        LAMBDA order_amounts :
    IF IsRaised(order_amounts) THEN order_amounts
    ELSE [order |-> FinishSingleOrder(order_input, order2, order_amounts.object_storage,
                                      order_amounts),
          object_storage |-> order_amounts.object_storage]))))))

create_single_order(order_input, storage, default_number) ==
    Let(CreateSingleOrderStorage(order_input, storage, default_number), LAMBDA r :
        IF IsRaised(r) THEN r ELSE r.order)

-----------------------------------------------------------------------------
(* validate_order_numbers: the loop from order k, numbers being those seen *)

RECURSIVE OrderNumbers(_, _, _)
OrderNumbers(os, k, numbers) ==
    IF k > Len(os) THEN os
    ELSE
    Let(os[k], LAMBDA order :
        IF ~IsNone(order.order) /\ order.order[1].number \in numbers
        THEN OrderNumbers(
                 [os EXCEPT ![k] =
                     [order EXCEPT
                         !.errors = Append(@, OrderBulkError("UNIQUE", P1("number"))),
                         !.order = None]],
                 k + 1, numbers)
        ELSE IF ~IsNone(order.order)
        THEN OrderNumbers(os, k + 1, numbers \cup {order.order[1].number})
        ELSE OrderNumbers(os, k + 1, numbers))

\* variant of validate_order_numbers: the duplicate gets its error and keeps
\* its order
validate_order_numbers_OrderKept(os) ==
    LET after == OrderNumbers(os, 1, {})
    IN [k \in 1..Len(os) |-> [after[k] EXCEPT !.order = os[k].order]]

validate_order_numbers(os) == OrderNumbers(os, 1, {})

\* variant of handle_error_policy: reject_failed_rows rejects nothing
handle_error_policy_RowsKept(os, policy) ==
    LET errors == Flatten([k \in 1..Len(os) |-> os[k].errors])
    IN IF errors # <<>> /\ policy = REJECT_EVERYTHING
       THEN [k \in 1..Len(os) |-> [os[k] EXCEPT !.order = None]]
       ELSE os

(* handle_error_policy *)

handle_error_policy(os, policy) ==
    LET errors == Flatten([k \in 1..Len(os) |-> os[k].errors])
    IN IF errors # <<>>
       THEN [k \in 1..Len(os) |->
                IF policy = REJECT_EVERYTHING
                THEN [os[k] EXCEPT !.order = None]
                ELSE IF policy = REJECT_FAILED_ROWS /\ os[k].errors # <<>>
                THEN [os[k] EXCEPT !.order = None]
                ELSE os[k]]
       ELSE os

-----------------------------------------------------------------------------
(* handle_stocks.  A stock row is [quantity, quantity_allocated]; the map   *)
(* key "<variant>_<warehouse>" is <<variant, warehouse>>.                   *)

StockKey(variant_id, warehouse) == <<variant_id, warehouse>>

\* the rows fetched for the orders that still have an order
FetchStocks(os, rows) ==
    LET live == {k \in 1..Len(os) : ~IsNone(os[k].order)}
        variant_ids == UNION {unique_variant_ids(os[k]) : k \in live}
        warehouse_ids == UNION {unique_warehouse_ids(os[k]) : k \in live}
    IN [key \in {r \in DOMAIN rows : r[1] \in variant_ids /\ r[2] \in warehouse_ids}
            |-> rows[key]]

\* "order.errors.append(...); order.is_critical_error = True" of handle_stocks
StockError(order, code, line_index) ==
    [order EXCEPT !.errors = Append(@, OrderBulkError(code, P2("lines", line_index))),
                  !.is_critical_error = TRUE]

\* variant of InsufficientStock: the policy is not looked at
InsufficientStock_AnyPolicy(quantity_to_allocate, available_quantity, policy) ==
    quantity_to_allocate > available_quantity

\* "quantity_to_allocate > available_quantity and stock_update_policy != FORCE"
InsufficientStock(quantity_to_allocate, available_quantity, policy) ==
    quantity_to_allocate > available_quantity /\ policy # FORCE

\* the loop over order.lines from line k on the private copy:
\* [order, copy]
RECURSIVE StockLines(_, _, _, _)
StockLines(order, k, copy, policy) ==
    IF k > Len(order.lines) THEN [order |-> order, copy |-> copy]
    ELSE
    Let(order.lines[k], LAMBDA line :
    Let(k - 1, LAMBDA line_index :
    Let(StockKey(line.variant_id, line.warehouse), LAMBDA key :
    Let(orderline_quantityfulfilled(order, line.id), LAMBDA quantity_fulfilled :
    Let(line.quantity - quantity_fulfilled, LAMBDA quantity_to_allocate :
    IF quantity_to_allocate < 0
    THEN [order |-> StockError(order, "INVALID_QUANTITY", line_index), copy |-> copy]
    ELSE IF key \notin DOMAIN copy
    THEN [order |-> StockError(order, "NON_EXISTING_STOCK", line_index), copy |-> copy]
    ELSE
    Let(copy[key], LAMBDA stock :
    Let(stock.quantity - stock.quantity_allocated, LAMBDA available_quantity :
        StockLines(IF InsufficientStock(quantity_to_allocate, available_quantity, policy)
                   THEN StockError(order, "INSUFFICIENT_STOCK", line_index)
                   ELSE order,
                   k + 1,
                   [copy EXCEPT ![key] =
                       [quantity |-> stock.quantity - quantity_fulfilled,
                        quantity_allocated |->
                            stock.quantity_allocated + quantity_to_allocate]],
                   policy))))))))

\* variant of HandleStocksOrder: the private copy never replaces the snapshot
HandleStocksOrder_NoCommit(order, smap, policy) ==
    Let(StockLines(order, 1, smap, policy), LAMBDA r :
        [order |-> r.order, stocks_map |-> smap])

\* variant of HandleStocksOrder: the private copy always replaces the snapshot
HandleStocksOrder_AlwaysCommit(order, smap, policy) ==
    Let(StockLines(order, 1, smap, policy), LAMBDA r :
        [order |-> r.order, stocks_map |-> r.copy])

\* one iteration of "for order in orders": [order, stocks_map]
HandleStocksOrder(order, smap, policy) ==
    Let(StockLines(order, 1, smap, policy), LAMBDA r :
        [order |-> r.order,
         stocks_map |-> IF ~r.order.is_critical_error THEN r.copy ELSE smap])

-----------------------------------------------------------------------------
(* save_data *)

set_quantity_fulfilled(order) ==
    [order EXCEPT !.lines =
        [k \in 1..Len(order.lines) |->
            [order.lines[k] EXCEPT
                !.quantity_fulfilled = orderline_quantityfulfilled(order, order.lines[k].id)]]]

set_fulfillment_order(order) ==
    [order EXCEPT !.fulfillments =
        [k \in 1..Len(order.fulfillments) |->
            [order.fulfillments[k] EXCEPT !.fulfillment_order = k]]]

\* variant of PrepareOrder: the critical flag is not looked at
PrepareOrder_CriticalKept(order) ==
    set_fulfillment_order(set_quantity_fulfilled(order))

\* the first loop of save_data
PrepareOrder(order) ==
    Let(set_fulfillment_order(set_quantity_fulfilled(order)), LAMBDA o :
        IF o.is_critical_error THEN [o EXCEPT !.order = None] ELSE o)

\* the rows written by Order, OrderLine and FulfillmentLine bulk_create
SavedOrders(os) ==
    {[index |-> k,
      number |-> os[k].order[1].number,
      lines |-> os[k].lines,
      notes |-> os[k].notes,
      fulfillment_lines |-> all_fulfillment_lines(os[k]),
      invoices |-> os[k].invoices]
        : k \in {j \in 1..Len(os) : ~IsNone(os[j].order)}}

\* Stock.objects.bulk_update(stocks, ["quantity"])
SavedStocks(rows, updated) ==
    [key \in DOMAIN rows |->
        IF key \in DOMAIN updated
        THEN [rows[key] EXCEPT !.quantity = updated[key].quantity]
        ELSE rows[key]]

\* the writes of save_data, in order
SaveSteps ==
    <<"Address", "Order", "OrderLine", "OrderEvent", "Fulfillment", "FulfillmentLine",
      "Stock", "TransactionItem", "Invoice", "OrderDiscount", "link_gift_cards">>

StepOf(name) == CHOOSE n \in 1..Len(SaveSteps) : SaveSteps[n] = name

\* the rows written when the write numbered step raises
SavedOrdersBefore(os, step) ==
    {[index |-> k,
      number |-> os[k].order[1].number,
      lines |-> IF step > StepOf("OrderLine") THEN os[k].lines ELSE <<>>,
      notes |-> IF step > StepOf("OrderEvent") THEN os[k].notes ELSE <<>>,
      fulfillment_lines |-> IF step > StepOf("FulfillmentLine")
                            THEN all_fulfillment_lines(os[k]) ELSE <<>>,
      invoices |-> IF step > StepOf("Invoice") THEN os[k].invoices ELSE <<>>]
        : k \in {j \in 1..Len(os) : ~IsNone(os[j].order) /\ step > StepOf("Order")}}

SavedStocksBefore(rows, updated, step) ==
    IF step > StepOf("Stock") THEN SavedStocks(rows, updated) ELSE rows

-----------------------------------------------------------------------------
(* perform_mutation: the value returned *)

OrderBulkCreateResult(order) == [order |-> order.order, errors |-> order.errors]

\* variant of Results: only the created orders get a result
Results_CreatedOnly(os) ==
    LET F[k \in 0..Len(os)] ==
            IF k = 0 THEN <<>>
            ELSE IF ~IsNone(os[k].order)
                 THEN Append(F[k - 1], OrderBulkCreateResult(os[k]))
                 ELSE F[k - 1]
    IN F[Len(os)]

Results(os) == [k \in 1..Len(os) |-> OrderBulkCreateResult(os[k])]

Count(os) == Cardinality({k \in 1..Len(os) : ~IsNone(os[k].order)})

\* variant of CreatedEvents: one call per order of the batch
CreatedEvents_All(os) == [k \in 1..Len(os) |-> k]

\* the orders order_bulk_created is called for, in the order of the calls
CreatedEvents(os) ==
    LET F[k \in 0..Len(os)] ==
            IF k = 0 THEN <<>>
            ELSE IF ~IsNone(os[k].order) THEN Append(F[k - 1], k) ELSE F[k - 1]
    IN F[Len(os)]

BulkLimitError == OrderBulkError("BULK_LIMIT", NoPath)

-----------------------------------------------------------------------------
(* RedisBuffer (saleor/webhook/observability/buffers.py).  The list at the  *)
(* buffer's key is a sequence with the head first.  A call queues its       *)
(* commands in a pipeline opened with transaction=False: the server runs    *)
(* each command atomically, and commands of other clients can run between   *)
(* two commands of one pipeline.                                            *)

\* BaseBuffer.encode and BaseBuffer.decode
encode(value) == [pickled |-> value]
decode(value) == value.pickled

Max(a, b) == IF a >= b THEN a ELSE b
Min(a, b) == IF a <= b THEN a ELSE b

Reverse(s) == [k \in 1..Len(s) |-> s[Len(s) + 1 - k]]

\* events[start_index:] for start_index = -size, size >= 1
LastOf(evs, size) == SubSeq(evs, Max(1, Len(evs) - size + 1), Len(evs))

\* the commands _put_events queues: LPUSH key *events_data, LTRIM key 0 stop
put_events_pipeline(evs, size) ==
    <<[cmd |-> "LPUSH", values |-> [k \in 1..Len(LastOf(evs, size)) |->
                                        encode(LastOf(evs, size)[k])]],
      [cmd |-> "LTRIM", start |-> 0, stop |-> Max(0, size - 1)]>>

\* the commands _pop_events queues: max(1, batch_size) times RPOP key
pop_events_pipeline(size) == [k \in 1..Max(1, size) |-> [cmd |-> "RPOP"]]

\* "return max(0, result[0] - self.max_size)"
put_events_result(result, size) == Max(0, result[1] - size)

\* the loop of _pop_events over the replies: it stops at the first None
RECURSIVE pop_events_result(_)
pop_events_result(result) ==
    IF result = <<>> \/ IsNone(Head(result)) THEN <<>>
    ELSE <<decode(Head(result)[1])>> \o pop_events_result(Tail(result))

Idle == [op |-> "idle", pipe |-> <<>>, result |-> <<>>]

BufferUnused ==
    /\ max_size = 1
    /\ batch_size = 1
    /\ redis = <<>>
    /\ clients = <<>>
    /\ last_event = 0
    /\ put_returns = <<>>
    /\ removed = <<>>
    /\ returned = <<>>

-----------------------------------------------------------------------------
(* Actions: the steps of perform_mutation, in program order *)

\* len(orders_input) > MAX_ORDERS.  The result is built with the keyword
\* "error", which is no field of OrderBulkCreateResult: the object type either
\* refuses the keyword (the call ends with a TypeError) or keeps it as a stray
\* attribute, leaving the field "errors" unset; results is the bare result.
BulkLimit ==
    /\ pc = "perform_mutation"
    /\ Len(orders_input) > MAX_ORDERS
    /\ \/ /\ pc' = "raised"
          /\ response' = None
       \/ /\ pc' = "done"
          /\ response' = Some([count |-> 0,
                               results |-> <<[order |-> None, errors |-> <<>>,
                                              error |-> BulkLimitError]>>])
    /\ UNCHANGED <<concurrent, buffer, request, committed, on_commit, db_stocks,
                   db_orders, object_storage, orders, idx, stocks_map, stocks, events>>

GetAllInstances ==
    /\ pc = "perform_mutation"
    /\ Len(orders_input) <= MAX_ORDERS
    /\ object_storage' = get_all_instances(orders_input, db)
    /\ idx' = 1
    /\ pc' = "create_single_order"
    /\ UNCHANGED <<concurrent, buffer, request, committed, on_commit, db_stocks,
                   db_orders, orders, stocks_map, stocks, events, response>>

\* one iteration of "for order_input in orders_input", and the loop's exit
CreateSingleOrder ==
    /\ pc = "create_single_order"
    /\ IF idx <= Len(orders_input)
       THEN /\ ~IsRaised(create_single_order(orders_input[idx], object_storage, -idx))
            /\ orders' = Append(orders,
                                create_single_order(orders_input[idx], object_storage, -idx))
            /\ object_storage' = CreateSingleOrderStorage(orders_input[idx], object_storage,
                                                          -idx).object_storage
            /\ idx' = idx + 1
            /\ pc' = pc
       ELSE /\ pc' = "validate_order_numbers"
            /\ UNCHANGED <<orders, idx, object_storage>>
    /\ UNCHANGED <<concurrent, buffer, request, committed, on_commit, db_stocks,
                   db_orders, stocks_map, stocks, events, response>>

\* the iteration in which create_single_order raises
CreateSingleOrderRaises ==
    /\ pc = "create_single_order"
    /\ idx <= Len(orders_input)
    /\ IsRaised(create_single_order(orders_input[idx], object_storage, -idx))
    /\ pc' = "rollback"
    /\ UNCHANGED <<concurrent, buffer, request, committed, on_commit, db_stocks, db_orders, object_storage,
                   orders, idx, stocks_map, stocks, events, response>>

ValidateOrderNumbers ==
    /\ pc = "validate_order_numbers"
    /\ orders' = validate_order_numbers(orders)
    /\ pc' = "handle_error_policy"
    /\ UNCHANGED <<concurrent, buffer, request, committed, on_commit, db_stocks,
                   db_orders, object_storage, idx, stocks_map, stocks, events, response>>

\* handle_error_policy, then the test of the stock update policy
HandleErrorPolicy ==
    /\ pc = "handle_error_policy"
    /\ orders' = handle_error_policy(orders, error_policy)
    /\ pc' = IF stock_update_policy # SKIP THEN "handle_stocks" ELSE "save_data"
    /\ UNCHANGED <<concurrent, buffer, request, committed, on_commit, db_stocks,
                   db_orders, object_storage, idx, stocks_map, stocks, events, response>>

\* handle_stocks: the query and the snapshot map
HandleStocksFetch ==
    /\ pc = "handle_stocks"
    /\ stocks_map' = FetchStocks(orders, db_stocks)
    /\ idx' = 1
    /\ pc' = "handle_stocks_loop"
    /\ UNCHANGED <<concurrent, buffer, request, committed, on_commit, db_stocks,
                   db_orders, object_storage, orders, stocks, events, response>>

\* handle_stocks: one iteration of "for order in orders", and the return
HandleStocks ==
    /\ pc = "handle_stocks_loop"
    /\ IF idx <= Len(orders)
       THEN /\ orders' = [orders EXCEPT ![idx] =
                            HandleStocksOrder(@, stocks_map, stock_update_policy).order]
            /\ stocks_map' = HandleStocksOrder(orders[idx], stocks_map,
                                               stock_update_policy).stocks_map
            /\ idx' = idx + 1
            /\ pc' = pc
            /\ UNCHANGED stocks
       ELSE /\ stocks' = stocks_map
            /\ pc' = "save_data"
            /\ UNCHANGED <<orders, stocks_map, idx>>
    /\ UNCHANGED <<concurrent, buffer, request, committed, on_commit, db_stocks,
                   db_orders, object_storage, events, response>>

SaveData ==
    /\ pc = "save_data"
    /\ orders' = [k \in 1..Len(orders) |-> PrepareOrder(orders[k])]
    /\ db_orders' = db_orders \cup SavedOrders(orders')
    /\ db_stocks' = SavedStocks(db_stocks, stocks)
    /\ pc' = "call_event"
    /\ UNCHANGED <<concurrent, buffer, request, committed, on_commit, object_storage,
                   idx, stocks_map, stocks, events, response>>

\* save_data when one of its writes raises: the writes before it are done
SaveDataRaises ==
    /\ pc = "save_data"
    /\ \E step \in 1..Len(SaveSteps) :
        /\ orders' = [k \in 1..Len(orders) |-> PrepareOrder(orders[k])]
        /\ db_orders' = db_orders \cup SavedOrdersBefore(orders', step)
        /\ db_stocks' = SavedStocksBefore(db_stocks, stocks, step)
    /\ pc' = "rollback"
    /\ UNCHANGED <<concurrent, buffer, request, committed, on_commit, object_storage,
                   idx, stocks_map, stocks, events, response>>

\* variant of Rollback: the rows written before the exception stay
Rollback_WritesKept ==
    /\ pc = "rollback"
    /\ on_commit' = <<>>
    /\ pc' = "raised"
    /\ UNCHANGED <<concurrent, buffer, request, committed, db_orders, db_stocks, object_storage, orders, idx,
                   stocks_map, stocks, events, response>>

\* an exception leaves "with traced_atomic_transaction()": the transaction is
\* rolled back, the deferred calls are dropped and the exception leaves
\* perform_mutation
Rollback ==
    /\ pc = "rollback"
    /\ db_orders' = committed.orders
    /\ db_stocks' = committed.stocks
    /\ on_commit' = <<>>
    /\ pc' = "raised"
    /\ UNCHANGED <<concurrent, buffer, request, committed, object_storage, orders, idx, stocks_map, stocks,
                   events, response>>

\* cls.call_event(manager.order_bulk_created, order.order) for the created
\* orders: inside a transaction call_event defers the call to the commit
CallEvent ==
    /\ pc = "call_event"
    /\ on_commit' = on_commit \o CreatedEvents(orders)
    /\ pc' = "return"
    /\ UNCHANGED <<concurrent, buffer, request, committed, db_stocks, db_orders, object_storage, orders, idx,
                   stocks_map, stocks, events, response>>

\* results, count and the return, which leaves the transaction: it commits
Return ==
    /\ pc = "return"
    /\ response' = Some([count |-> Count(orders), results |-> Results(orders)])
    /\ committed' = [orders |-> db_orders, stocks |-> db_stocks]
    /\ pc' = "on_commit"
    /\ UNCHANGED <<concurrent, buffer, request, on_commit, db_stocks, db_orders, object_storage, orders, idx,
                   stocks_map, stocks, events>>

\* the calls deferred to the commit are made
OnCommit ==
    /\ pc = "on_commit"
    /\ events' = events \o on_commit
    /\ on_commit' = <<>>
    /\ pc' = "done"
    /\ UNCHANGED <<concurrent, buffer, request, committed, db_stocks, db_orders, object_storage, orders, idx,
                   stocks_map, stocks, response>>

Next ==
    \/ BulkLimit
    \/ GetAllInstances
    \/ CreateSingleOrder
    \/ CreateSingleOrderRaises
    \/ ValidateOrderNumbers
    \/ HandleErrorPolicy
    \/ HandleStocksFetch
    \/ HandleStocks
    \/ SaveData
    \/ SaveDataRaises
    \/ Rollback
    \/ CallEvent
    \/ Return
    \/ OnCommit

-----------------------------------------------------------------------------
(* Requests and database content *)

MaxBatch == 2
MaxQuantity == 2

EmptyStocks == [key \in {} |-> [quantity |-> 0, quantity_allocated |-> 0]]

BaseDb ==
    [users |-> {Entity("User", 1, 1, 0)},
     variants |-> {Entity("ProductVariant", 1, 0, 0), Entity("ProductVariant", 2, 0, 0)},
     channels |-> {Entity("Channel", 1, 1, 0)},
     warehouses |-> {Entity("Warehouse", 1, 0, 0), Entity("Warehouse", 2, 0, 0)},
     shipping_methods |-> {Entity("ShippingMethod", 1, 0, 0)},
     tax_classes |-> {Entity("TaxClass", 1, 0, 0)},
     orders |-> {Entity("Order", 1, 2, 0)},
     gift_cards |-> {Entity("GiftCard", 1, 1, 0)},
     channel_listings |-> {}]

Money(gross, net) == [gross |-> gross, net |-> net]

BaseLine ==
    [variant_id |-> 1, variant_sku |-> 0, variant_external_reference |-> 0,
     warehouse |-> 1, tax_class_id |-> 1, quantity |-> 1,
     total_price |-> Money(2, 1), undiscounted_total_price |-> Money(2, 1),
     created_at |-> 0]

BaseOrder ==
    [number |-> 0, created_at |-> 0, redirect_url |-> "", weight |-> 0, channel |-> 1,
     user |-> [id |-> 1, email |-> 0, external_reference |-> 0],
     billing_address_valid |-> TRUE,
     delivery_method |-> [warehouse_id |-> 1, shipping_method_id |-> 0,
                          shipping_tax_class_id |-> 0, shipping_price |-> None],
     status |-> UNFULFILLED,
     lines |-> <<BaseLine>>,
     notes |-> <<>>,
     fulfillments |-> <<>>,
     invoices |-> <<>>,
     gift_cards |-> <<>>]

FulfillmentLine(variant, warehouse, quantity, order_line_index) ==
    [variant_id |-> variant, variant_sku |-> 0, variant_external_reference |-> 0,
     warehouse |-> warehouse, quantity |-> quantity,
     order_line_index |-> order_line_index]

\* batches at and over the cap, of the same order
CapBatches == {[k \in 1..n |-> BaseOrder] : n \in {MAX_ORDERS, MAX_ORDERS + 1}}

\* delivery by shipping method 1, at the price given
Shipped(order_input, shipping_price) ==
    [order_input EXCEPT !.delivery_method =
        [warehouse_id |-> 0, shipping_method_id |-> 1, shipping_tax_class_id |-> 1,
         shipping_price |-> shipping_price]]

\* a batch whose second order has a shipping price of net 0
ShippingBatches == {<<BaseOrder, Shipped(BaseOrder, Some(Money(1, 0)))>>}

StockRow(quantity, allocated) == [quantity |-> quantity, quantity_allocated |-> allocated]

ConcurrentUnused ==
    /\ calls = <<>>
    /\ initial_stocks = EmptyStocks
    /\ stock_table = EmptyStocks
    /\ order_table = {}

InitWithDb(batches, stock_rows, dbs) ==
    /\ orders_input \in batches \cup CapBatches \cup ShippingBatches
    /\ error_policy \in ErrorPolicies
    /\ stock_update_policy \in StockUpdatePolicies
    /\ db \in dbs
    /\ db_stocks \in stock_rows
    /\ db_orders = {}
    /\ committed = [orders |-> db_orders, stocks |-> db_stocks]
    /\ on_commit = <<>>
    /\ object_storage = EmptyStorage
    /\ orders = <<>>
    /\ pc = "perform_mutation"
    /\ idx = 1
    /\ stocks_map = EmptyStocks
    /\ stocks = EmptyStocks
    /\ events = <<>>
    /\ response = None
    /\ BufferUnused
    /\ ConcurrentUnused

InitWith(batches, stock_rows) == InitWithDb(batches, stock_rows, {BaseDb})

\* orders with one defect each, next to valid ones
PolicyOrders ==
    {[BaseOrder EXCEPT !.lines = <<[BaseLine EXCEPT !.quantity = q]>>]
        : q \in 1..MaxQuantity}
    \cup {[BaseOrder EXCEPT !.number = n] : n \in 1..2}
    \cup {[BaseOrder EXCEPT !.created_at = MINUTES_DIFF],
          [BaseOrder EXCEPT !.status = FULFILLED],
          [BaseOrder EXCEPT !.channel = 3],
          [BaseOrder EXCEPT !.lines = <<[BaseLine EXCEPT !.variant_id = 3]>>],
          [BaseOrder EXCEPT !.lines = <<[BaseLine EXCEPT !.warehouse = 2]>>],
          [BaseOrder EXCEPT !.fulfillments = <<<<FulfillmentLine(1, 2, 1, 0)>>>>],
          [BaseOrder EXCEPT !.number = 1, !.created_at = MINUTES_DIFF]}

PolicyStocks ==
    {[key \in {StockKey(1, 1)} |-> StockRow(q, 0)] : q \in {1, MaxQuantity + 1}}

\* orders that carry order numbers; 2 is the number of an existing order
NumberOrders ==
    {[BaseOrder EXCEPT !.number = n] : n \in 0..2}
    \cup {[BaseOrder EXCEPT !.number = 1, !.created_at = MINUTES_DIFF]}

Init ==
    InitWith(SeqsUpTo(PolicyOrders, MaxBatch) \cup SeqsUpTo(NumberOrders, MaxBatch + 1),
             PolicyStocks)

Spec == Init /\ [][Next]_vars

-----------------------------------------------------------------------------
(* Orders competing for one stock row *)

MaxStockQuantity == 2

Fulfilled(order_input, quantity) ==
    IF quantity = 0 THEN order_input
    ELSE [order_input EXCEPT !.fulfillments = <<<<FulfillmentLine(1, 1, quantity, 0)>>>>,
                             !.status = IF quantity = order_input.lines[1].quantity
                                        THEN FULFILLED ELSE PARTIALLY_FULFILLED]

StockOrders ==
    {Fulfilled([BaseOrder EXCEPT !.lines = <<[BaseLine EXCEPT !.quantity = q]>>], f)
        : q \in 1..MaxStockQuantity, f \in 0..1}
    \cup {[BaseOrder EXCEPT !.lines = <<[BaseLine EXCEPT !.variant_id = 2]>>],
          [BaseOrder EXCEPT !.lines = <<[BaseLine EXCEPT !.variant_id = 2], BaseLine>>],
          [BaseOrder EXCEPT !.created_at = MINUTES_DIFF]}

StockStocks ==
    {[key \in {StockKey(1, 1), StockKey(2, 1)} |->
        IF key = StockKey(1, 1) THEN StockRow(q, a) ELSE StockRow(1, 0)]
        : q \in 0..(MaxStockQuantity + 1), a \in 0..1}

InitStock == InitWith(SeqsUpTo(StockOrders, MaxBatch), StockStocks)

SpecStock == InitStock /\ [][Next]_vars

-----------------------------------------------------------------------------
(* Orders with fulfillments *)

MaxFulfillmentLines == 2

TwoLines == <<BaseLine, [BaseLine EXCEPT !.variant_id = 2, !.warehouse = 2]>>

FulfillmentLineInputs ==
    {FulfillmentLine(v, w, 1, i) : v \in 1..2, w \in 1..2, i \in -1..1}
    \cup {FulfillmentLine(3, 1, 1, 0)}

FulfillmentInputs == SeqsFromTo(FulfillmentLineInputs, 1, MaxFulfillmentLines)

FulfillmentOrders ==
    {[BaseOrder EXCEPT !.lines = ls, !.channel = c, !.fulfillments = <<f>>,
                       !.status = PARTIALLY_FULFILLED]
        : ls \in {<<BaseLine>>, TwoLines}, c \in {1, 3}, f \in FulfillmentInputs}
    \cup {[BaseOrder EXCEPT !.lines = TwoLines, !.fulfillments = <<<<f1>>, <<f2>>>>,
                            !.status = FULFILLED]
            : f1 \in FulfillmentLineInputs, f2 \in FulfillmentLineInputs}

FulfillmentStocks ==
    {[key \in {StockKey(1, 1), StockKey(2, 2)} |-> StockRow(3, 0)]}

InitFulfillment == InitWith(SeqsFromTo(FulfillmentOrders, 1, 1), FulfillmentStocks)

SpecFulfillment == InitFulfillment /\ [][Next]_vars

-----------------------------------------------------------------------------
(* Orders with one priced line *)

MaxPriceQuantity == 4
MaxAmount == 3

PriceOrders ==
    {[BaseOrder EXCEPT !.channel = c,
                       !.lines = <<[BaseLine EXCEPT !.variant_id = v,
                                                    !.quantity = q,
                                                    !.total_price = Money(g, n),
                                                    !.undiscounted_total_price = u]>>]
        : c \in {1, 3}, v \in {1, 3}, q \in 0..MaxPriceQuantity,
          g \in 0..MaxAmount, n \in 0..MaxAmount, u \in {Money(2, 1), Money(1, 2)}}

PriceStocks == {[key \in {StockKey(1, 1)} |-> StockRow(MaxPriceQuantity, 0)]}

InitPrice == InitWith(SeqsFromTo(PriceOrders, 1, 1), PriceStocks)

SpecPrice == InitPrice /\ [][Next]_vars

-----------------------------------------------------------------------------
(* Orders of up to two lines, with and without stock for them *)

MaxAllocationQuantity == 2

AllocationOrders ==
    {Fulfilled([BaseOrder EXCEPT !.lines = <<[BaseLine EXCEPT !.quantity = q]>>], f)
        : q \in 1..MaxAllocationQuantity, f \in 0..MaxAllocationQuantity}
    \cup {[BaseOrder EXCEPT !.lines = <<BaseLine, BaseLine>>],
          [BaseOrder EXCEPT !.lines = <<[BaseLine EXCEPT !.quantity = 2],
                                         [BaseLine EXCEPT !.variant_id = 3]>>],
          [BaseOrder EXCEPT !.lines = <<[BaseLine EXCEPT !.variant_id = 2, !.quantity = 2],
                                         BaseLine>>],
          [BaseOrder EXCEPT !.created_at = MINUTES_DIFF]}

AllocationStocks ==
    {[key \in {StockKey(1, 1)} \cup second |->
        IF key = StockKey(1, 1) THEN StockRow(q, a) ELSE StockRow(1, 0)]
        : q \in 0..(MaxAllocationQuantity + 1), a \in 0..1,
          second \in {{}, {StockKey(2, 1)}}}

\* the orders alone and in pairs
AllocationBatches ==
    {<<a>> : a \in AllocationOrders} \cup {<<a, b>> : a \in AllocationOrders, b \in AllocationOrders}

InitAllocation == InitWith(AllocationBatches, AllocationStocks)

SpecAllocation == InitAllocation /\ [][Next]_vars

-----------------------------------------------------------------------------
(* Orders of every status, ordered quantity and fulfilled quantity *)

MaxStatusQuantity == 2

OrderStatuses == {UNFULFILLED, PARTIALLY_FULFILLED, FULFILLED}

StatusOrders ==
    {[BaseOrder EXCEPT !.status = s, !.lines = ls, !.fulfillments = fs]
        : s \in OrderStatuses,
          ls \in {<<>>} \cup {<<[BaseLine EXCEPT !.quantity = q]>>
                                : q \in 1..MaxStatusQuantity},
          fs \in {<<>>} \cup {<<<<FulfillmentLine(1, 1, f, 0)>>>>
                                : f \in 1..(MaxStatusQuantity + 1)}}

StatusStocks == {[key \in {StockKey(1, 1)} |-> StockRow(MaxStatusQuantity + 1, 0)]}

InitStatus == InitWith(SeqsFromTo(StatusOrders, 1, 1), StatusStocks)

SpecStatus == InitStatus /\ [][Next]_vars

-----------------------------------------------------------------------------
(* Orders with a note or an invoice, dated around the tolerance *)

MaxDateOffset == 1

Dates == (0 - 1)..0 \cup (MINUTES_DIFF - MaxDateOffset)..(MINUTES_DIFF + MaxDateOffset)

NoteInput(date, message) == [date |-> date, message |-> message]
InvoiceInput(created_at) == [created_at |-> created_at]

DateOrders ==
    {[BaseOrder EXCEPT !.notes = <<NoteInput(Some(d), 1)>>] : d \in Dates}
    \cup {[BaseOrder EXCEPT !.invoices = <<InvoiceInput(d)>>] : d \in Dates}
    \cup {[BaseOrder EXCEPT !.notes = <<NoteInput(None, 1)>>],
          [BaseOrder EXCEPT !.notes = <<NoteInput(Some(0), MAX_NOTE_LENGTH + 1),
                                        NoteInput(Some(MINUTES_DIFF), MAX_NOTE_LENGTH)>>,
                            !.invoices = <<InvoiceInput(0), InvoiceInput(MINUTES_DIFF)>>]}

DateStocks == {[key \in {StockKey(1, 1)} |-> StockRow(1, 0)]}

InitDate == InitWith(SeqsFromTo(DateOrders, 1, 1), DateStocks)

SpecDate == InitDate /\ [][Next]_vars

-----------------------------------------------------------------------------
(* Variants with SKUs, named by id or by SKU *)

MaxSku == 3

\* variant 1 without SKU, variant 2 with a SKU, which can be "1"
SkuDbs ==
    {[BaseDb EXCEPT !.variants = {Entity("ProductVariant", 1, 0, 0),
                                  Entity("ProductVariant", 2, sku, 0)}]
        : sku \in 1..MaxSku}

SkuLines ==
    {[BaseLine EXCEPT !.variant_id = v, !.variant_sku = s]
        : v \in 0..2, s \in 0..MaxSku} \ {[BaseLine EXCEPT !.variant_id = 0]}

SkuOrders == {[BaseOrder EXCEPT !.lines = <<l>>] : l \in SkuLines}

SkuBatches == {<<a>> : a \in SkuOrders} \cup {<<a, b>> : a \in SkuOrders, b \in SkuOrders}

SkuStocks == {[key \in {StockKey(1, 1), StockKey(2, 1)} |-> StockRow(2, 0)]}

InitSku == InitWithDb(SkuBatches, SkuStocks, SkuDbs)

SpecSku == InitSku /\ [][Next]_vars

-----------------------------------------------------------------------------
(* Gift card codes, found and missing *)

MaxGiftCards == 3

\* code 1 is a gift card of the database, code 2 is not
GiftCardCodes == {1, 2}

GiftOrders == {[BaseOrder EXCEPT !.gift_cards = codes] : codes \in SeqsUpTo(GiftCardCodes, MaxGiftCards)}

GiftStocks == {[key \in {StockKey(1, 1)} |-> StockRow(3, 0)]}

InitGift == InitWith(SeqsFromTo(GiftOrders, 1, 1), GiftStocks)

SpecGift == InitGift /\ [][Next]_vars

-----------------------------------------------------------------------------
(* One shipping method listed in two channels *)

MaxListingPrice == 2

ChannelListing(shipping_method_id, channel_id, price_amount) ==
    [shipping_method_id |-> shipping_method_id, channel_id |-> channel_id,
     price_amount |-> price_amount]

\* channels 1 and 2; shipping method 1 is listed in each at a price, or not
\* listed there (price 0 below)
ListingDbs ==
    {[BaseDb EXCEPT
        !.channels = {Entity("Channel", 1, 1, 0), Entity("Channel", 2, 2, 0)},
        !.channel_listings = {ChannelListing(1, 1, p1) : x \in {p1} \ {0}}
                             \cup {ChannelListing(1, 2, p2) : x \in {p2} \ {0}}]
        : p1 \in 0..MaxListingPrice, p2 \in 0..MaxListingPrice}

ListingOrders ==
    {Shipped([BaseOrder EXCEPT !.channel = c], None) : c \in {1, 2}}
    \cup {BaseOrder, Shipped(BaseOrder, Some(Money(2, 1)))}

ListingStocks == {[key \in {StockKey(1, 1)} |-> StockRow(3, 0)]}

InitListing == InitWithDb(SeqsFromTo(ListingOrders, 1, 2), ListingStocks, ListingDbs)

SpecListing == InitListing /\ [][Next]_vars

-----------------------------------------------------------------------------
(* The buffer's clients *)

MaxBufferSize == 2
MaxBufferBatch == 2
MaxEvents == 4
MaxClients == 2

\* put_events(events) with n new events: the pipeline is queued
PutEvents(c, n) ==
    /\ c \in DOMAIN clients
    /\ clients[c].op = "idle"
    /\ last_event + n <= MaxEvents
    /\ last_event' = last_event + n
    /\ clients' = [clients EXCEPT ![c] =
                    [op |-> "put_events",
                     pipe |-> put_events_pipeline([k \in 1..n |-> last_event + k], max_size),
                     result |-> <<>>]]
    /\ UNCHANGED <<max_size, batch_size, redis, put_returns, removed, returned>>
    /\ UNCHANGED <<mutation, concurrent>>

\* pop_events(): the pipeline is queued
PopEvents(c) ==
    /\ c \in DOMAIN clients
    /\ clients[c].op = "idle"
    /\ clients' = [clients EXCEPT ![c] =
                    [op |-> "pop_events", pipe |-> pop_events_pipeline(batch_size),
                     result |-> <<>>]]
    /\ UNCHANGED <<max_size, batch_size, redis, last_event, put_returns, removed, returned>>
    /\ UNCHANGED <<mutation, concurrent>>

\* pop_event(): _pop_events with batch_size=1
PopEvent(c) ==
    /\ c \in DOMAIN clients
    /\ clients[c].op = "idle"
    /\ clients' = [clients EXCEPT ![c] =
                    [op |-> "pop_event", pipe |-> pop_events_pipeline(1), result |-> <<>>]]
    /\ UNCHANGED <<max_size, batch_size, redis, last_event, put_returns, removed, returned>>
    /\ UNCHANGED <<mutation, concurrent>>

\* the reply of the server to the next command of c's pipeline
Reply(c, reply) ==
    clients' = [clients EXCEPT ![c].pipe = Tail(@), ![c].result = Append(@, reply)]

\* the server runs LPUSH: the values go to the head one by one, the reply is
\* the length of the list
Lpush(c) ==
    /\ c \in DOMAIN clients
    /\ clients[c].pipe # <<>>
    /\ Head(clients[c].pipe).cmd = "LPUSH"
    /\ redis' = Reverse(Head(clients[c].pipe).values) \o redis
    /\ Reply(c, Len(redis'))
    /\ UNCHANGED <<max_size, batch_size, last_event, put_returns, removed, returned>>
    /\ UNCHANGED <<mutation, concurrent>>

\* the server runs LTRIM: the list keeps the positions start..stop
Ltrim(c) ==
    /\ c \in DOMAIN clients
    /\ clients[c].pipe # <<>>
    /\ Head(clients[c].pipe).cmd = "LTRIM"
    /\ redis' = SubSeq(redis, Head(clients[c].pipe).start + 1,
                       Min(Len(redis), Head(clients[c].pipe).stop + 1))
    /\ Reply(c, 0)
    /\ UNCHANGED <<max_size, batch_size, last_event, put_returns, removed, returned>>
    /\ UNCHANGED <<mutation, concurrent>>

\* the server runs RPOP: the tail of the list, or None for an empty list
Rpop(c) ==
    /\ c \in DOMAIN clients
    /\ clients[c].pipe # <<>>
    /\ Head(clients[c].pipe).cmd = "RPOP"
    /\ IF redis = <<>>
       THEN /\ Reply(c, None)
            /\ UNCHANGED <<redis, removed>>
       ELSE /\ Reply(c, Some(redis[Len(redis)]))
            /\ redis' = SubSeq(redis, 1, Len(redis) - 1)
            /\ removed' = Append(removed, redis[Len(redis)])
    /\ UNCHANGED <<max_size, batch_size, last_event, put_returns, returned>>
    /\ UNCHANGED <<mutation, concurrent>>

\* pipe.execute() has returned in put_events
PutEventsReturn(c) ==
    /\ c \in DOMAIN clients
    /\ clients[c].op = "put_events"
    /\ clients[c].pipe = <<>>
    /\ put_returns' = Append(put_returns, put_events_result(clients[c].result, max_size))
    /\ clients' = [clients EXCEPT ![c] = Idle]
    /\ UNCHANGED <<max_size, batch_size, redis, last_event, removed, returned>>
    /\ UNCHANGED <<mutation, concurrent>>

\* pipe.execute() has returned in _pop_events
PopEventsReturn(c) ==
    /\ c \in DOMAIN clients
    /\ clients[c].op \in {"pop_events", "pop_event"}
    /\ clients[c].pipe = <<>>
    /\ returned' = returned \o pop_events_result(clients[c].result)
    /\ clients' = [clients EXCEPT ![c] = Idle]
    /\ UNCHANGED <<max_size, batch_size, redis, last_event, put_returns, removed>>
    /\ UNCHANGED <<mutation, concurrent>>

NextBuffer ==
    \/ \E c \in 1..MaxClients, n \in 1..(MaxBufferSize + 1) : PutEvents(c, n)
    \/ \E c \in 1..MaxClients : PopEvents(c)
    \/ \E c \in 1..MaxClients : PopEvent(c)
    \/ \E c \in 1..MaxClients : Lpush(c)
    \/ \E c \in 1..MaxClients : Ltrim(c)
    \/ \E c \in 1..MaxClients : Rpop(c)
    \/ \E c \in 1..MaxClients : PutEventsReturn(c)
    \/ \E c \in 1..MaxClients : PopEventsReturn(c)

\* no mutation runs
MutationUnused ==
    /\ orders_input = <<>>
    /\ error_policy = "reject_everything"
    /\ stock_update_policy = SKIP
    /\ db = BaseDb
    /\ db_stocks = EmptyStocks
    /\ db_orders = {}
    /\ committed = [orders |-> db_orders, stocks |-> db_stocks]
    /\ on_commit = <<>>
    /\ object_storage = EmptyStorage
    /\ orders = <<>>
    /\ pc = "done"
    /\ idx = 1
    /\ stocks_map = EmptyStocks
    /\ stocks = EmptyStocks
    /\ events = <<>>
    /\ response = None

InitBufferWith(n) ==
    /\ MutationUnused
    /\ ConcurrentUnused
    /\ max_size \in 1..MaxBufferSize
    /\ batch_size \in 1..MaxBufferBatch
    /\ redis = <<>>
    /\ clients = [c \in 1..n |-> Idle]
    /\ last_event = 0
    /\ put_returns = <<>>
    /\ removed = <<>>
    /\ returned = <<>>

\* one client
InitBuffer == InitBufferWith(1)

SpecBuffer == InitBuffer /\ [][NextBuffer]_vars

\* producers and consumers on the same key
InitBufferShared == InitBufferWith(MaxClients)

SpecBufferShared == InitBufferShared /\ [][NextBuffer]_vars

-----------------------------------------------------------------------------
(* OrderBulkCreate calls at the same time, each in the transaction opened   *)
(* by traced_atomic_transaction().  handle_stocks reads the stock rows with *)
(* a plain query (no select_for_update) and save_data writes them with      *)
(* bulk_update.  Under the database's default isolation (read committed) a  *)
(* query sees the rows committed so far, an UPDATE waits for the            *)
(* transaction that holds a write on the row, and a commit makes the        *)
(* writes of the transaction visible.                                       *)

MaxConcurrentQuantity == 2

\* "for order_input in orders_input: orders.append(create_single_order(...))"
\* from input k, for inputs on which create_single_order does not raise
RECURSIVE CreateOrders(_, _, _, _)
CreateOrders(input, k, storage, first_number) ==
    IF k > Len(input) THEN <<>>
    ELSE
    Let(CreateSingleOrderStorage(input[k], storage, first_number - k), LAMBDA r :
        <<r.order>> \o CreateOrders(input, k + 1, r.object_storage, first_number))

\* "for order in orders" of handle_stocks from order k: [orders, stocks_map]
RECURSIVE HandleStocksLoop(_, _, _, _)
HandleStocksLoop(os, k, smap, policy) ==
    IF k > Len(os) THEN [orders |-> os, stocks_map |-> smap]
    ELSE
    Let(HandleStocksOrder(os[k], smap, policy), LAMBDA r :
        HandleStocksLoop([os EXCEPT ![k] = r.order], k + 1, r.stocks_map, policy))

\* the call starts: everything of perform_mutation before handle_stocks
CallCreate(c) ==
    /\ c \in DOMAIN calls
    /\ calls[c].pc = "perform_mutation"
    /\ calls' = [calls EXCEPT
            ![c].orders = handle_error_policy(
                            validate_order_numbers(
                                CreateOrders(calls[c].orders_input, 1,
                                             get_all_instances(calls[c].orders_input, db),
                                             0 - MAX_ORDERS * c)),
                            calls[c].error_policy),
            ![c].pc = "handle_stocks"]
    /\ UNCHANGED <<initial_stocks, stock_table, order_table>>
    /\ UNCHANGED <<mutation, buffer>>

\* handle_stocks with policy UPDATE: the query reads the committed rows
CallHandleStocks(c) ==
    /\ c \in DOMAIN calls
    /\ calls[c].pc = "handle_stocks"
    /\ calls' = [calls EXCEPT
            ![c].orders = HandleStocksLoop(calls[c].orders, 1,
                                           FetchStocks(calls[c].orders, stock_table),
                                           UPDATE).orders,
            ![c].stocks = HandleStocksLoop(calls[c].orders, 1,
                                           FetchStocks(calls[c].orders, stock_table),
                                           UPDATE).stocks_map,
            ![c].pc = "save_data"]
    /\ UNCHANGED <<initial_stocks, stock_table, order_table>>
    /\ UNCHANGED <<mutation, buffer>>

\* save_data: the rows are written inside the transaction; the UPDATE of a
\* stock row waits while another transaction holds a write on it
CallSaveData(c) ==
    /\ c \in DOMAIN calls
    /\ calls[c].pc = "save_data"
    /\ \A d \in DOMAIN calls :
            (d # c /\ calls[d].pc = "commit") =>
                DOMAIN calls[d].stocks \cap DOMAIN calls[c].stocks = {}
    /\ calls' = [calls EXCEPT
            ![c].orders = [k \in 1..Len(calls[c].orders) |-> PrepareOrder(calls[c].orders[k])],
            ![c].pc = "commit"]
    /\ UNCHANGED <<initial_stocks, stock_table, order_table>>
    /\ UNCHANGED <<mutation, buffer>>

\* the transaction commits: its writes reach the shared tables
CallCommit(c) ==
    /\ c \in DOMAIN calls
    /\ calls[c].pc = "commit"
    /\ stock_table' = SavedStocks(stock_table, calls[c].stocks)
    /\ order_table' = order_table \cup {[call |-> c, order |-> o] : o \in SavedOrders(calls[c].orders)}
    /\ calls' = [calls EXCEPT ![c].pc = "done"]
    /\ UNCHANGED initial_stocks
    /\ UNCHANGED <<mutation, buffer>>

NextConcurrent ==
    \/ \E c \in 1..MaxClients : CallCreate(c)
    \/ \E c \in 1..MaxClients : CallHandleStocks(c)
    \/ \E c \in 1..MaxClients : CallSaveData(c)
    \/ \E c \in 1..MaxClients : CallCommit(c)

\* valid orders of one line on stock row (1, 1), with and without fulfillment
ConcurrentOrders ==
    {Fulfilled([BaseOrder EXCEPT !.lines = <<[BaseLine EXCEPT !.quantity = q]>>], f)
        : q \in 1..MaxConcurrentQuantity, f \in 0..MaxConcurrentQuantity}

ConcurrentStocks ==
    {[key \in {StockKey(1, 1)} |-> StockRow(q, 0)] : q \in 0..(2 * MaxConcurrentQuantity)}

NewCall(input, policy) ==
    [pc |-> "perform_mutation", orders_input |-> input, error_policy |-> policy,
     orders |-> <<>>, stocks |-> EmptyStocks]

InitConcurrent ==
    /\ MutationUnused
    /\ BufferUnused
    /\ initial_stocks \in ConcurrentStocks
    /\ stock_table = initial_stocks
    /\ order_table = {}
    /\ calls \in [1..2 -> {NewCall(<<o>>, p) : o \in ConcurrentOrders, p \in ErrorPolicies}]

SpecConcurrent == InitConcurrent /\ [][NextConcurrent]_vars

-----------------------------------------------------------------------------
(* Properties *)

WithinCap == Len(orders_input) <= MAX_ORDERS
Done == pc = "done" /\ WithinCap
Persisted(k) == \E o \in db_orders : o.index = k
ResultOrder(k) == response[1].results[k].order
ErrorFree(k) == orders[k].errors = <<>>

\* the positions of the lines of order k on a stock row
LinesOn(k, key) ==
    {n \in 1..Len(orders[k].lines) :
        StockKey(orders[k].lines[n].variant_id, orders[k].lines[n].warehouse) = key}

\* what line n of order k asks of its stock row: ordered minus fulfilled
ToAllocate(k, n) ==
    orders[k].lines[n].quantity
    - orderline_quantityfulfilled(orders[k], orders[k].lines[n].id)

\* order k went through every phase before the allocation, and nothing is
\* wrong with it except, possibly, insufficient stock for its line n
OtherwiseValid(k, n) ==
    /\ ~IsNone(orders[k].order)
    /\ \A e \in Range(orders[k].errors) :
            e = OrderBulkError("INSUFFICIENT_STOCK", P2("lines", n - 1))

\* orders i < j are alone on a stock row, which covers each of their lines
\* but not both
Competing(i, j, key) ==
    /\ i < j
    /\ key \in DOMAIN db_stocks
    /\ \A k \in 1..Len(orders) : k \notin {i, j} => LinesOn(k, key) = {}
    /\ Cardinality(LinesOn(i, key)) = 1
    /\ Cardinality(LinesOn(j, key)) = 1
    /\ LET a == CHOOSE n \in LinesOn(i, key) : TRUE
           b == CHOOSE n \in LinesOn(j, key) : TRUE
           available == db_stocks[key].quantity - db_stocks[key].quantity_allocated
       IN /\ OtherwiseValid(i, a)
          /\ OtherwiseValid(j, b)
          /\ ToAllocate(i, a) >= 0 /\ ToAllocate(i, a) <= available
          /\ ToAllocate(j, b) >= 0 /\ ToAllocate(j, b) <= available
          /\ ToAllocate(i, a) + ToAllocate(j, b) > available

\* C1: under stock policy UPDATE, when two otherwise valid orders of a batch
\* each have a line on the same stock row and the row's available quantity
\* covers what either line has to allocate but not both, the commit phase that
\* follows the allocation persists the earlier order and not the later one,
\* which carries INSUFFICIENT_STOCK for that line.  The batch in which the two
\* orders are swapped is a batch of the same kind, so the outcome swaps too.
C1_FirstOrderGetsScarceStock ==
    [][(pc = "save_data" /\ pc' = "call_event" /\ stock_update_policy = UPDATE) =>
        \A i, j \in 1..Len(orders) : \A key \in DOMAIN db_stocks :
            Competing(i, j, key) =>
                /\ \E o \in db_orders' : o.index = i
                /\ ~\E o \in db_orders' : o.index = j
                /\ HasError(orders[j].errors, "INSUFFICIENT_STOCK",
                            P2("lines", (CHOOSE n \in LinesOn(j, key) : TRUE) - 1))]_vars

\* two orders competed for a row: the first is persisted, the second is not
C1_Witness ==
    /\ Done
    /\ stock_update_policy = UPDATE
    /\ Len(orders) = 2
    /\ LinesOn(1, StockKey(1, 1)) # {} /\ LinesOn(2, StockKey(1, 1)) # {}
    /\ Persisted(1) /\ ~Persisted(2)
    /\ ErrorFree(1)
    /\ orders[2].errors = <<OrderBulkError("INSUFFICIENT_STOCK", P2("lines", 0))>>

-----------------------------------------------------------------------------
\* C2: under reject_everything, if any order ends the call with an error,
\* whatever phase recorded it, every result has a null order, no order is
\* persisted and count is 0.
C2_RejectEverything ==
    (Done /\ error_policy = REJECT_EVERYTHING
          /\ \E k \in 1..Len(orders) : ~ErrorFree(k)) =>
        /\ \A k \in 1..Len(orders) : IsNone(ResultOrder(k))
        /\ db_orders = {}
        /\ response[1].count = 0

\* C3: under reject_failed_rows, within the cap, a result has a null order
\* exactly when the order's error list is not empty at the end of the call;
\* every order without errors is persisted, and count is their number.
C3_RejectFailedRows ==
    (Done /\ error_policy = REJECT_FAILED_ROWS) =>
        /\ \A k \in 1..Len(orders) :
            /\ IsNone(ResultOrder(k)) <=> ~ErrorFree(k)
            /\ ErrorFree(k) => Persisted(k)
            /\ Persisted(k) => ErrorFree(k)
        /\ response[1].count = Cardinality({k \in 1..Len(orders) : ErrorFree(k)})

\* an order with errors was nulled next to an order that was persisted
C3_Witness ==
    /\ Done /\ error_policy = REJECT_FAILED_ROWS
    /\ \E i, j \in 1..Len(orders) :
        /\ ~ErrorFree(i) /\ IsNone(ResultOrder(i)) /\ ~orders[i].is_critical_error
        /\ ErrorFree(j) /\ Persisted(j)
    /\ response[1].count = 1

\* C4: a call with more than MAX_ORDERS orders does no per-order work and
\* persists nothing; it returns count 0 and one result with a null order and
\* exactly one BULK_LIMIT error in its errors.  A call with exactly MAX_ORDERS
\* orders is processed.
C4_BulkLimit ==
    /\ (~WithinCap /\ pc # "perform_mutation") =>
        /\ pc = "done"
        /\ orders = <<>> /\ db_orders = {}
        /\ response[1].count = 0
        /\ Len(response[1].results) = 1
        /\ IsNone(response[1].results[1].order)
        /\ response[1].results[1].errors = <<BulkLimitError>>
    /\ (Len(orders_input) = MAX_ORDERS /\ pc = "done") =>
        Len(response[1].results) = MAX_ORDERS

\* order j is alive and an earlier alive order has its number
DuplicateNumber(j) ==
    /\ ~IsNone(orders[j].order)
    /\ \E i \in 1..(j - 1) :
        /\ ~IsNone(orders[i].order)
        /\ orders[i].order[1].number = orders[j].order[1].number

\* C5: validate_order_numbers keeps the first order of every order number and
\* gives every later order with that number a UNIQUE error on path "number"
\* and a null order; no two orders persisted by the call share a number, and
\* no persisted order has the number of an order that existed before the call.
C5_OrderNumbersUnique ==
    /\ [][pc = "validate_order_numbers" =>
            \A j \in 1..Len(orders) :
                IF DuplicateNumber(j)
                THEN /\ IsNone(orders'[j].order)
                     /\ orders'[j].errors =
                            Append(orders[j].errors, OrderBulkError("UNIQUE", P1("number")))
                ELSE orders'[j] = orders[j]]_vars
    /\ [](/\ \A o1, o2 \in db_orders : o1.index # o2.index => o1.number # o2.number
          /\ \A o \in db_orders : o.number \notin {e.name : e \in db.orders})

\* three orders carry number 1: the first is persisted, the others are not
C5_Witness ==
    /\ Done /\ Len(orders) = 3 /\ error_policy = IGNORE_FAILED
    /\ \A k \in 1..3 : orders_input[k].number = 1
    /\ Persisted(1) /\ ~Persisted(2) /\ ~Persisted(3)
    /\ \A k \in 2..3 : HasError(orders[k].errors, "UNIQUE", P1("number"))

\* C9: is_critical_error is never reset once set, and an order whose flag is
\* set is not persisted and has a null order in its result, under every error
\* policy and every stock policy.
C9_CriticalExcludes ==
    /\ [][\A k \in 1..Len(orders) :
            orders[k].is_critical_error => orders'[k].is_critical_error]_vars
    /\ [](Done => \A k \in 1..Len(orders) :
            orders[k].is_critical_error => IsNone(ResultOrder(k)) /\ ~Persisted(k))

\* under ignore_failed a critical order is excluded next to a persisted one
C9_Witness ==
    /\ Done /\ error_policy = IGNORE_FAILED
    /\ \E i, j \in 1..Len(orders) :
        /\ orders[i].is_critical_error /\ IsNone(ResultOrder(i)) /\ orders[i].lines # <<>>
        /\ Persisted(j)

\* C10: within the cap the results list has one entry per input order, the
\* i-th result is that of the i-th input order, and count is the number of
\* results with an order, which is the number of orders persisted.
C10_ResultsMatchInput ==
    Done =>
        /\ Len(response[1].results) = Len(orders_input)
        /\ \A k \in 1..Len(orders_input) :
            IF IsNone(ResultOrder(k)) THEN ~Persisted(k)
            ELSE /\ ResultOrder(k)[1].number = IF orders_input[k].number # 0
                                               THEN orders_input[k].number ELSE -k
                 /\ \E o \in db_orders :
                        /\ o.index = k
                        /\ Len(o.lines) = Len(orders_input[k].lines)
                        /\ \A n \in 1..Len(o.lines) :
                            o.lines[n].quantity = orders_input[k].lines[n].quantity
        /\ response[1].count =
            Cardinality({k \in 1..Len(orders_input) : ~IsNone(ResultOrder(k))})
        /\ response[1].count = Cardinality(db_orders)

\* a batch of two different orders, the second created and the first not
C10_Witness ==
    /\ Done /\ Len(orders_input) = 2
    /\ IsNone(ResultOrder(1)) /\ ~IsNone(ResultOrder(2))
    /\ orders_input[2].lines[1].quantity = 2
    /\ response[1].count = 1

-----------------------------------------------------------------------------
(* Fulfillment lines against their order lines *)

Abs(x) == IF x < 0 THEN -x ELSE x

\* order k got past the test that follows get_delivery_method, so its lines
\* were gone through
LinesReached(k) ==
    /\ ~IsNone(orders[k].channel)
    /\ ~IsNone(orders[k].billing_address)
    /\ ~IsNone(orders[k].user) \/ orders_input[k].user.email # 0
    /\ ~HasError(orders[k].errors, "REQUIRED", P1("delivery_method"))

\* the variant and the warehouse named by a line input are found
Resolves(line_input) ==
    /\ ~IsNone(get_instance(VariantIds(line_input), "ProductVariant",
                            object_storage).instance)
    /\ ~IsNone(get_instance(<<<<line_input.warehouse, "id">>>>, "Warehouse",
                            object_storage).instance)

FulfillmentLineInput(k, f, l) == orders_input[k].fulfillments[f][l]

\* line l of fulfillment f of input order k names an order line of the input
RefersToLine(k, f, l) ==
    FulfillmentLineInput(k, f, l).order_line_index \in 0..(Len(orders_input[k].lines) - 1)

ReferencedLineInput(k, f, l) ==
    orders_input[k].lines[FulfillmentLineInput(k, f, l).order_line_index + 1]

\* ... and its warehouse or its variant is not that of the order line
Mismatching(k, f, l) ==
    /\ RefersToLine(k, f, l)
    /\ \/ FulfillmentLineInput(k, f, l).warehouse # ReferencedLineInput(k, f, l).warehouse
       \/ VariantIds(FulfillmentLineInput(k, f, l)) # VariantIds(ReferencedLineInput(k, f, l))

MismatchPath(k, f, l) ==
    Path("fulfillments", f - 1, "lines", l - 1,
         IF FulfillmentLineInput(k, f, l).warehouse # ReferencedLineInput(k, f, l).warehouse
         THEN "warehouse" ELSE "variant_id")

\* the comparison of line l with its order line is reached: every line of the
\* order was created, the fulfillment line's own variant and warehouse are
\* found, and every earlier line of the same fulfillment was accepted
ComparisonReached(k, f, l) ==
    /\ LinesReached(k)
    /\ Len(orders[k].lines) = Len(orders_input[k].lines)
    /\ Resolves(FulfillmentLineInput(k, f, l))
    /\ \A m \in 1..(l - 1) :
        /\ Resolves(FulfillmentLineInput(k, f, m))
        /\ RefersToLine(k, f, m)
        /\ ~Mismatching(k, f, m)

FulfillmentLineInputsOf(k) ==
    UNION {{<<k, f, l>> : l \in 1..Len(orders_input[k].fulfillments[f])}
            : f \in 1..Len(orders_input[k].fulfillments)}

MismatchingLines ==
    {t \in UNION {FulfillmentLineInputsOf(k) : k \in 1..Len(orders)} :
        Mismatching(t[1], t[2], t[3])}

\* every fulfillment line written has the variant and warehouse of the order
\* line it references
PersistedFulfillmentLinesMatch ==
    \A o \in db_orders : \A n \in 1..Len(o.fulfillment_lines) :
        \E m \in 1..Len(o.lines) :
            /\ o.lines[m].id = o.fulfillment_lines[n].order_line
            /\ o.lines[m].variant_id = o.fulfillment_lines[n].variant_id
            /\ o.lines[m].warehouse = o.fulfillment_lines[n].warehouse

\* C6 as stated: every fulfillment line whose warehouse or variant differs
\* from that of the order line named by order_line_index gives the order an
\* ORDER_LINE_FULFILLMENT_LINE_MISMATCH error, marks it critical and keeps it
\* from being persisted, and persisted fulfillment lines match their order
\* lines.
C6_MismatchAlwaysReported ==
    Done =>
        /\ \A t \in MismatchingLines :
            /\ HasCode(orders[t[1]].errors, "ORDER_LINE_FULFILLMENT_LINE_MISMATCH")
            /\ orders[t[1]].is_critical_error
            /\ ~Persisted(t[1])
        /\ PersistedFulfillmentLinesMatch

\* C6, amended: an order with a fulfillment line whose warehouse or variant
\* differs from that of the order line named by order_line_index is not
\* persisted and has a null order in its result, under every error policy; it
\* gets ORDER_LINE_FULFILLMENT_LINE_MISMATCH on that line (on its warehouse if
\* the warehouses differ, else on its variant_id) and is marked critical
\* whenever the comparison is reached, that is when the order was not
\* disqualified before its fulfillments, the fulfillment line's own variant
\* and warehouse are found and no earlier line of the same fulfillment failed.
\* Every persisted fulfillment line has the variant and warehouse of the order
\* line it references.
C6_MismatchExcludes ==
    Done =>
        /\ \A t \in MismatchingLines :
            /\ ~Persisted(t[1])
            /\ IsNone(ResultOrder(t[1]))
            /\ ComparisonReached(t[1], t[2], t[3]) =>
                /\ HasError(orders[t[1]].errors, "ORDER_LINE_FULFILLMENT_LINE_MISMATCH",
                            MismatchPath(t[1], t[2], t[3]))
                /\ orders[t[1]].is_critical_error
        /\ PersistedFulfillmentLinesMatch

\* under ignore_failed, the second line of a fulfillment has the warehouse of
\* its order line and another variant: the order has the error and is dropped
C6_Witness ==
    /\ Done /\ error_policy = IGNORE_FAILED
    /\ <<1, 1, 2>> \in MismatchingLines
    /\ <<1, 1, 1>> \notin MismatchingLines
    /\ ComparisonReached(1, 1, 2)
    /\ orders[1].errors =
        <<OrderBulkError("ORDER_LINE_FULFILLMENT_LINE_MISMATCH",
                         Path("fulfillments", 0, "lines", 1, "variant_id"))>>
    /\ orders[1].is_critical_error
    /\ IsNone(ResultOrder(1)) /\ ~Persisted(1)

-----------------------------------------------------------------------------
(* Line prices *)

BadTotal(k, n) ==
    orders_input[k].lines[n].total_price.gross < orders_input[k].lines[n].total_price.net

BadUndiscounted(k, n) ==
    orders_input[k].lines[n].undiscounted_total_price.gross
        < orders_input[k].lines[n].undiscounted_total_price.net

InputLines ==
    UNION {{<<k, n>> : n \in 1..Len(orders_input[k].lines)} : k \in 1..Len(orders)}

PersistedLinesPriced ==
    \A o \in db_orders : \A n \in 1..Len(o.lines) :
        /\ o.lines[n].amounts.total_gross >= o.lines[n].amounts.total_net
        /\ o.lines[n].amounts.undiscounted_total_gross
            >= o.lines[n].amounts.undiscounted_total_net

\* C7 as stated: an order line whose total_price or undiscounted_total_price
\* has gross < net always gives the order a PRICE_ERROR for that line and keeps
\* the order from being persisted, whatever else holds of the line.
C7_PriceErrorAlways ==
    Done =>
        /\ \A t \in InputLines :
            (BadTotal(t[1], t[2]) \/ BadUndiscounted(t[1], t[2])) =>
                /\ \E e \in Range(orders[t[1]].errors) :
                    /\ e.code = "PRICE_ERROR"
                    /\ e.path.field = "lines" /\ e.path.index = t[2] - 1
                /\ ~Persisted(t[1])
        /\ PersistedLinesPriced

\* C7, amended: an order with a line whose total_price or
\* undiscounted_total_price has gross < net is never persisted and has a null
\* order in its result, under every error policy.  It gets PRICE_ERROR on
\* lines.[n].total_price and on lines.[n].undiscounted_total_price, for each of
\* the two that has gross < net, and is marked critical, whenever the prices
\* of the line are looked at: the order was not disqualified before its lines
\* and the line's variant and warehouse are found.  Every persisted order line
\* has total gross >= total net and undiscounted gross >= undiscounted net.
C7_PriceErrorExcludes ==
    Done =>
        /\ \A t \in InputLines :
            (BadTotal(t[1], t[2]) \/ BadUndiscounted(t[1], t[2])) =>
                /\ ~Persisted(t[1])
                /\ IsNone(ResultOrder(t[1]))
                /\ (LinesReached(t[1]) /\ Resolves(orders_input[t[1]].lines[t[2]])) =>
                    /\ orders[t[1]].is_critical_error
                    /\ BadTotal(t[1], t[2]) <=>
                        HasError(orders[t[1]].errors, "PRICE_ERROR",
                                 P3("lines", t[2] - 1, "total_price"))
                    /\ BadUndiscounted(t[1], t[2]) <=>
                        HasError(orders[t[1]].errors, "PRICE_ERROR",
                                 P3("lines", t[2] - 1, "undiscounted_total_price"))
        /\ PersistedLinesPriced

\* under ignore_failed, a line whose total price is in order and whose
\* undiscounted price has gross < net: one PRICE_ERROR, the order is dropped
C7_Witness ==
    /\ Done /\ error_policy = IGNORE_FAILED
    /\ ~BadTotal(1, 1) /\ BadUndiscounted(1, 1)
    /\ orders_input[1].lines[1].quantity >= 1
    /\ orders[1].errors =
        <<OrderBulkError("PRICE_ERROR", P3("lines", 0, "undiscounted_total_price"))>>
    /\ orders[1].is_critical_error
    /\ IsNone(ResultOrder(1)) /\ ~Persisted(1)

\* the accepted lines: those created from a line input
AcceptedLines ==
    UNION {{<<k, n>> : n \in 1..Len(orders[k].lines)} : k \in 1..Len(orders)}

AcceptedAmounts(k, n) == orders[k].lines[n].amounts

AcceptedLineInput(k, n) == orders_input[k].lines[orders[k].lines[n].id + 1]

\* C8 as stated: for every accepted order line, in minor currency units,
\* |unit_net * quantity - total_net| <= 1.
C8_UnitNetWithinOne ==
    \A t \in AcceptedLines :
        LET a == AcceptedAmounts(t[1], t[2])
        IN Abs(a.unit_net * a.quantity - a.total_net) <= 1

\* C8, amended: every accepted order line has quantity >= 1 and gross >= net,
\* keeps the quantity and the total net of its input, and, in minor currency
\* units, its unit_net is total_net / quantity rounded to the nearest unit, so
\* that |unit_net * quantity - total_net| <= quantity / 2; this is within one
\* minor unit for quantities up to 3 only.
C8_UnitNetWithinHalfQuantity ==
    \A t \in AcceptedLines :
        LET a == AcceptedAmounts(t[1], t[2])
            i == AcceptedLineInput(t[1], t[2])
        IN /\ a.quantity >= 1 /\ a.quantity = i.quantity
           /\ a.total_net = i.total_price.net
           /\ a.total_gross >= a.total_net
           /\ 2 * Abs(a.unit_net * a.quantity - a.total_net) <= a.quantity
           /\ a.quantity <= 3 => Abs(a.unit_net * a.quantity - a.total_net) <= 1

\* a persisted line of quantity 4 and total net 2: its unit net is 0, two
\* minor units away from the total
C8_Witness ==
    /\ Done /\ Persisted(1)
    /\ AcceptedAmounts(1, 1).quantity = 4
    /\ AcceptedAmounts(1, 1).total_net = 2
    /\ AcceptedAmounts(1, 1).unit_net = 0

-----------------------------------------------------------------------------
\* the lines of a persisted order on the same variant and warehouse
SameStockRow(o, a, b) ==
    /\ a # b
    /\ o.lines[a].variant_id = o.lines[b].variant_id
    /\ o.lines[a].warehouse = o.lines[b].warehouse

\* C11: no persisted order has two order lines with the same (variant,
\* warehouse) pair; an input order that names the same variant and warehouse
\* on two of its lines is not persisted.
C11_NoDuplicateLines ==
    Done => \A o \in db_orders : \A a, b \in 1..Len(o.lines) : ~SameStockRow(o, a, b)

\* C12: under every stock update policy, the quantity fulfilled of every
\* persisted order line, the sum of the quantities of the fulfillment lines
\* that reference it, does not exceed the line's ordered quantity; an order
\* with an over-fulfilled line is never persisted.
C12_NeverOverFulfilled ==
    Done => \A o \in db_orders : \A n \in 1..Len(o.lines) :
                QuantityOf(o.fulfillment_lines, o.lines[n].id) <= o.lines[n].quantity

\* save_data was reached and a write of it raised
SaveDataRaised == pc = "raised" /\ WithinCap /\ idx > Len(orders_input)

\* C13: if a write of save_data raises, no record of any order of the batch
\* stays persisted and no stock row is changed, also for the orders without
\* errors whose records were written before the failing write: the exception
\* leaves the transaction, whose rollback restores the tables as they were
\* outside it, and nothing is committed or returned.
C13_CommitPhaseAtomic ==
    /\ [](SaveDataRaised =>
            /\ db_orders = {}
            /\ db_stocks = committed.stocks
            /\ committed.orders = {}
            /\ IsNone(response))
    /\ [][pc' \in {"rollback", "raised"} => committed' = committed]_vars

\* a write of save_data raised under UPDATE, for a batch with an order without
\* errors and a stock row whose quantity the stock update changes
C13_Witness ==
    /\ SaveDataRaised
    /\ stock_update_policy = UPDATE
    /\ \E k \in 1..Len(orders) : ~IsNone(orders[k].order) /\ ErrorFree(k)
    /\ \E key \in DOMAIN stocks : stocks[key].quantity # db_stocks[key].quantity

\* the number of order_bulk_created notifications fired for order k
Notifications(k) == Cardinality({n \in 1..Len(events) : events[n] = k})

\* C14: order_bulk_created is fired exactly once for each persisted order and
\* never for an order whose result is null; each notification is fired only
\* after the batch's records are committed, never before, and never for a
\* batch that is rolled back.
C14_NotifiedAfterCommit ==
    /\ [](Done => \A k \in 1..Len(orders) :
                    /\ Persisted(k) => Notifications(k) = 1
                    /\ IsNone(ResultOrder(k)) => Notifications(k) = 0
                    /\ Notifications(k) = 1 => Persisted(k))
    /\ [](pc \in {"rollback", "raised"} => events = <<>>)
    /\ [][events' # events =>
            /\ committed = [orders |-> db_orders, stocks |-> db_stocks]
            /\ UNCHANGED <<committed, db_orders, db_stocks>>
            /\ \A n \in 1..Len(events') : \E o \in committed.orders : o.index = events'[n]]_vars

\* a batch of two orders of which only the first is persisted: one
\* notification, for the first
C14_Witness ==
    /\ Done
    /\ Len(orders) = 2
    /\ Persisted(1) /\ ~Persisted(2) /\ IsNone(ResultOrder(2))
    /\ events = <<1>>
    /\ committed.orders = db_orders /\ db_orders # {}

\* an exception left perform_mutation while the orders were being created
AbortedByOrderInput == pc = "raised" /\ idx <= Len(orders_input)

\* C15: within the cap, a defect in one order's input (a shipping price of net
\* 0 for a shipping method, a customer that cannot be resolved, ...) never
\* aborts the call: it is recorded as an error on that order and the call
\* returns one result per input order.
C15_OrderDefectsNeverAbort ==
    /\ WithinCap => ~AbortedByOrderInput
    /\ Done => /\ Len(response[1].results) = Len(orders_input)
               /\ \A k \in 1..Len(orders_input) :
                    response[1].results[k].errors = orders[k].errors

\* what the lines of order k ask of a stock row, and what its fulfillment
\* lines take from it
AllocatedBy(k, key) ==
    SumSeq([n \in 1..Len(orders[k].lines) |->
                IF n \in LinesOn(k, key) THEN ToAllocate(k, n) ELSE 0])

FulfilledBy(k, key) ==
    SumSeq([n \in 1..Len(orders[k].lines) |->
                IF n \in LinesOn(k, key)
                THEN orderline_quantityfulfilled(orders[k], orders[k].lines[n].id)
                ELSE 0])

\* the snapshot when only the orders of the set ks have been simulated
SnapshotOf(ks) ==
    [key \in DOMAIN FetchStocks(orders, db_stocks) |->
        [quantity |-> db_stocks[key].quantity
                        - SumSeq([k \in 1..Len(orders) |->
                                    IF k \in ks THEN FulfilledBy(k, key) ELSE 0]),
         quantity_allocated |-> db_stocks[key].quantity_allocated
                        + SumSeq([k \in 1..Len(orders) |->
                                    IF k \in ks THEN AllocatedBy(k, key) ELSE 0])]]

NotCritical(last) == {k \in 1..last : ~orders[k].is_critical_error}

\* C16: in handle_stocks an order that gets a critical error at any of its
\* lines (over-fulfilled, no stock row, insufficient stock under UPDATE)
\* leaves the snapshot as it was before the order, also for its lines
\* simulated before and after the failing one; every later order sees the
\* quantities it would see if the failed order were absent.
C16_FailedOrderLeavesSnapshot ==
    /\ [][(pc = "handle_stocks_loop" /\ idx <= Len(orders)
            /\ orders'[idx].is_critical_error) => stocks_map' = stocks_map]_vars
    /\ [](pc = "handle_stocks_loop" => stocks_map = SnapshotOf(NotCritical(idx - 1)))
    /\ []((pc = "save_data" /\ stock_update_policy # SKIP) =>
            stocks = SnapshotOf(NotCritical(Len(orders))))

\* the first order lacks stock for its first line and is simulated on its
\* second line all the same; the second order then gets the unit of that row
C16_Witness ==
    /\ pc = "save_data"
    /\ stock_update_policy = UPDATE
    /\ Len(orders) = 2
    /\ Len(orders[1].lines) = 2
    /\ orders[1].errors = <<OrderBulkError("INSUFFICIENT_STOCK", P2("lines", 0))>>
    /\ LinesOn(1, StockKey(1, 1)) = {2} /\ ToAllocate(1, 2) = 1
    /\ LinesOn(2, StockKey(1, 1)) = {1} /\ ToAllocate(2, 1) = 1
    /\ ErrorFree(2)
    /\ db_stocks[StockKey(1, 1)] = StockRow(1, 0)
    /\ stocks[StockKey(1, 1)] = StockRow(1, 1)

\* every order of the batch reached save_data without an error
AllPassed == \A k \in 1..Len(orders) : ~IsNone(orders[k].order) /\ ErrorFree(k)

\* C17: after a batch whose orders pass the stock simulation, save_data
\* writes back, for each stock row, quantity_allocated increased by the sum of
\* (ordered - fulfilled) over the order lines on the row and quantity
\* decreased by the sum of the fulfillment-line quantities on the row; both
\* changes are persisted.
C17_StockWrittenBack ==
    [][(pc = "save_data" /\ pc' = "call_event" /\ stock_update_policy # SKIP /\ AllPassed) =>
        \A key \in DOMAIN db_stocks :
            /\ db_stocks'[key].quantity
                = db_stocks[key].quantity
                    - SumSeq([k \in 1..Len(orders) |-> FulfilledBy(k, key)])
            /\ db_stocks'[key].quantity_allocated
                = db_stocks[key].quantity_allocated
                    + SumSeq([k \in 1..Len(orders) |-> AllocatedBy(k, key)])]_vars

\* The order simulated by a step of the loop of handle_stocks is orders[idx].
LineKey(k, n) == StockKey(orders[k].lines[n].variant_id, orders[k].lines[n].warehouse)

\* line n of order k ends the simulation of the order
Fatal(k, n) == ToAllocate(k, n) < 0 \/ LineKey(k, n) \notin DOMAIN stocks_map

\* the simulation of order k goes through its line n
Simulated(k, n) == \A m \in 1..n : ~Fatal(k, m)

\* what the private copy has available on the row of line n when the
\* simulation is at that line: each earlier line of the order on the row has
\* taken its ordered quantity
AvailableAt(k, n) ==
    stocks_map[LineKey(k, n)].quantity - stocks_map[LineKey(k, n)].quantity_allocated
    - SumSeq([m \in 1..(n - 1) |->
                IF m \in LinesOn(k, LineKey(k, n)) THEN orders[k].lines[m].quantity ELSE 0])

\* the errors the step appends to its order
NewErrors ==
    Range(SubSeq(orders'[idx].errors, Len(orders[idx].errors) + 1, Len(orders'[idx].errors)))

StocksStep == pc = "handle_stocks_loop" /\ idx <= Len(orders)

\* C18, as stated: under FORCE no order ever gets INSUFFICIENT_STOCK, an
\* oversold order is allocated and persisted, and a line without stock row or
\* over-fulfilled still excludes the order; under UPDATE every line that needs
\* more than quantity - quantity_allocated of its row marks the order critical
\* with INSUFFICIENT_STOCK on that line.
C18_EveryLackingLineReported ==
    [][(StocksStep /\ stock_update_policy = UPDATE) =>
        \A n \in 1..Len(orders[idx].lines) :
            (/\ LineKey(idx, n) \in DOMAIN stocks_map
             /\ ToAllocate(idx, n)
                    > stocks_map[LineKey(idx, n)].quantity
                        - stocks_map[LineKey(idx, n)].quantity_allocated) =>
                /\ OrderBulkError("INSUFFICIENT_STOCK", P2("lines", n - 1)) \in NewErrors
                /\ orders'[idx].is_critical_error]_vars

\* C18, amended: under FORCE no order ever gets INSUFFICIENT_STOCK, and an
\* order all of whose lines have a stock row and are not over-fulfilled gets no
\* error from handle_stocks, is allocated whatever is available and, if it has
\* no other error, is persisted.  Under UPDATE and FORCE the first line that is
\* over-fulfilled (INVALID_QUANTITY) or without stock row (NON_EXISTING_STOCK)
\* marks the order critical and ends its simulation.  Under UPDATE the order
\* gets INSUFFICIENT_STOCK on a line, and is critical, exactly when the
\* simulation goes through that line and the line needs more than quantity -
\* quantity_allocated of the order's private copy at that point; a line after
\* an over-fulfilled or stock-less line is not simulated.
C18_ForceOversells ==
    /\ [](stock_update_policy = FORCE =>
            \A k \in 1..Len(orders) : ~HasCode(orders[k].errors, "INSUFFICIENT_STOCK"))
    /\ []((Done /\ stock_update_policy = FORCE) =>
            \A k \in 1..Len(orders) :
                (~IsNone(orders[k].order) /\ ErrorFree(k)) => Persisted(k))
    /\ [][StocksStep =>
            /\ \A n \in 1..Len(orders[idx].lines) :
                /\ (Simulated(idx, n - 1) /\ ToAllocate(idx, n) < 0) =>
                    /\ OrderBulkError("INVALID_QUANTITY", P2("lines", n - 1)) \in NewErrors
                    /\ orders'[idx].is_critical_error
                /\ (Simulated(idx, n - 1) /\ ToAllocate(idx, n) >= 0
                        /\ LineKey(idx, n) \notin DOMAIN stocks_map) =>
                    /\ OrderBulkError("NON_EXISTING_STOCK", P2("lines", n - 1)) \in NewErrors
                    /\ orders'[idx].is_critical_error
                /\ (/\ stock_update_policy = UPDATE
                    /\ Simulated(idx, n)
                    /\ ToAllocate(idx, n) > AvailableAt(idx, n))
                   <=> OrderBulkError("INSUFFICIENT_STOCK", P2("lines", n - 1)) \in NewErrors
            /\ NewErrors # {} => orders'[idx].is_critical_error
            /\ (stock_update_policy = FORCE /\ Simulated(idx, Len(orders[idx].lines))) =>
                /\ NewErrors = {}
                /\ ~orders[idx].is_critical_error =>
                    \A key \in DOMAIN stocks_map :
                        stocks_map'[key].quantity_allocated
                            = stocks_map[key].quantity_allocated + AllocatedBy(idx, key)]_vars

\* under FORCE an order of quantity 2 is persisted from a row with nothing
\* available, while an order on a missing row is excluded
C18_Witness ==
    /\ Done
    /\ stock_update_policy = FORCE
    /\ Len(orders) = 2
    /\ db_stocks[StockKey(1, 1)].quantity - db_stocks[StockKey(1, 1)].quantity_allocated <= 0
    /\ LinesOn(1, StockKey(1, 1)) = {1} /\ ToAllocate(1, 1) = 2
    /\ ErrorFree(1) /\ Persisted(1)
    /\ StockKey(2, 1) \notin DOMAIN db_stocks
    /\ orders[2].errors = <<OrderBulkError("NON_EXISTING_STOCK", P2("lines", 0))>>
    /\ ~Persisted(2)

\* order k was disqualified by create_single_order: it left it without order
Disqualified(k) ==
    IsNone(create_single_order(orders_input[k], object_storage, -k).order)

\* C19: once an order is disqualified during construction (no delivery
\* method, no channel, a failed order line or fulfillment), every later phase
\* skips it: none appends an error to its error list, reads its lines for the
\* stock simulation, or changes any state because of it.
C19_DisqualifiedSkipped ==
    [][\A k \in 1..Len(orders) :
            Disqualified(k) =>
                /\ orders'[k].errors = orders[k].errors
                /\ orders'[k].is_critical_error = orders[k].is_critical_error]_vars

\* create_single_order went as far as validate_order_status for order k
StatusValidated(k) == ~Disqualified(k)

StatusError(k) == HasError(orders[k].errors, "INVALID", P1("status"))

\* the statuses validate_order_status accepts for the lines and fulfillments
\* of an order
AcceptedStatuses(order) ==
    {s \in OrderStatuses :
        validate_order_status(s, [order EXCEPT !.errors = <<>>]).errors = <<>>}

\* C20: for every ordered total O and fulfilled total F exactly one
\* of the three statuses is accepted: unfulfilled when F = 0,
\* partially_fulfilled when 0 < F < O, fulfilled when F = O; every other
\* status gets INVALID on path status, and the error does not set the
\* critical flag.
C20_ExactlyOneStatus ==
    \A k \in 1..Len(orders) :
        StatusValidated(k) =>
            LET O == total_order_quantity(orders[k])
                F == total_fulfillment_quantity(orders[k])
            IN /\ Cardinality(AcceptedStatuses(orders[k])) = 1
               /\ F = 0 => AcceptedStatuses(orders[k]) = {UNFULFILLED}
               /\ (0 < F /\ F < O) => AcceptedStatuses(orders[k]) = {PARTIALLY_FULFILLED}
               /\ F = O => AcceptedStatuses(orders[k]) = {FULFILLED}
               /\ StatusError(k) <=> orders_input[k].status \notin AcceptedStatuses(orders[k])

\* C21: an input order whose created_at is not earlier than now + 5 minutes
\* gets a FUTURE_DATE error on created_at and is never persisted, under every
\* error policy; an order with an earlier created_at gets no such error.
C21_FutureOrderRejected ==
    Done => \A k \in 1..Len(orders) :
                /\ orders_input[k].created_at >= MINUTES_DIFF =>
                    /\ HasError(orders[k].errors, "FUTURE_DATE", P1("created_at"))
                    /\ ~Persisted(k)
                    /\ IsNone(ResultOrder(k))
                /\ orders_input[k].created_at < MINUTES_DIFF =>
                    ~HasError(orders[k].errors, "FUTURE_DATE", P1("created_at"))

\* note n or invoice n of input order k is dated beyond the tolerance
FutureNote(k, n) ==
    /\ ~IsNone(orders_input[k].notes[n].date)
    /\ orders_input[k].notes[n].date[1] >= MINUTES_DIFF

FutureInvoice(k, n) == orders_input[k].invoices[n].created_at >= MINUTES_DIFF

\* order k has no defect other than future dates of notes and invoices
OnlyFutureDated(k) ==
    /\ \/ \E n \in 1..Len(orders_input[k].notes) : FutureNote(k, n)
       \/ \E m \in 1..Len(orders_input[k].invoices) : FutureInvoice(k, m)
    /\ \A n \in 1..Len(orders_input[k].notes) :
            orders_input[k].notes[n].message <= MAX_NOTE_LENGTH
    /\ [orders_input[k] EXCEPT !.notes = <<>>, !.invoices = <<>>] = BaseOrder

\* C22: a note or an invoice dated beyond the 5-minute tolerance is kept on its
\* order with the current time as its date (for the invoice: the current
\* time, or no date so that the table's default applies); no error is
\* recorded for it, and the order is not excluded because of it.
C22_FutureDatesClamped ==
    Done => \A k \in 1..Len(orders) :
                /\ \A n \in 1..Len(orders_input[k].notes) :
                        ~HasError(orders[k].errors, "FUTURE_DATE", P3("notes", n - 1, "date"))
                /\ \A n \in 1..Len(orders_input[k].invoices) :
                        ~HasError(orders[k].errors, "FUTURE_DATE",
                                  P3("invoices", n - 1, "created_at"))
                /\ OnlyFutureDated(k) =>
                    /\ Persisted(k)
                    /\ \A o \in db_orders : o.index = k =>
                        /\ Len(o.notes) = Len(orders_input[k].notes)
                        /\ Len(o.invoices) = Len(orders_input[k].invoices)
                        /\ \A n \in 1..Len(o.notes) :
                                FutureNote(k, n) => o.notes[n].date = Some(0)
                        /\ \A n \in 1..Len(o.invoices) :
                                FutureInvoice(k, n) =>
                                    o.invoices[n].created_at \in {None, Some(0)}

\* the value an entity has in a key field
FieldOf(e, field) ==
    IF field = "id" THEN e.id
    ELSE IF field = "external_reference" THEN e.external_reference
    ELSE e.name

EntityModels ==
    {"User", "ProductVariant", "Channel", "Warehouse", "ShippingMethod", "TaxClass", "Order",
     "GiftCard"}

\* the variants the query of get_all_instances fetches
FetchedVariants ==
    {v \in db.variants :
        \/ v.id \in InputKeys(orders_input).ProductVariant_id
        \/ v.name \in InputKeys(orders_input).ProductVariant_sku
        \/ v.external_reference \in InputKeys(orders_input).ProductVariant_external_reference}

\* C23: in the lookup cache built by get_all_instances every entry under
\* "<Model>.<field>.<value>" is an entity of that model whose field has that
\* value, and every fetched entity is reachable under each of its identifying
\* fields (a variant with a SKU under "ProductVariant.sku.<sku>"); the entry
\* "ProductVariant.id.<k>" is the variant whose id is k, also when another
\* fetched variant has the SKU k.
C23_CacheKeysAgree ==
    (pc # "perform_mutation" /\ WithinCap) =>
        /\ \A key \in DOMAIN object_storage :
            key.model \in EntityModels =>
                /\ object_storage[key].model = key.model
                /\ FieldOf(object_storage[key], key.field) = key.value
        /\ \A v \in FetchedVariants :
            /\ Lookup(object_storage, Key("ProductVariant", "id", v.id)) = Some(v)
            /\ v.name # 0 =>
                Lookup(object_storage, Key("ProductVariant", "sku", v.name)) = Some(v)

\* the orders that still have their order reference
WithOrder == {k \in 1..Len(orders) : ~IsNone(orders[k].order)}

\* C24: the stock rows handle_stocks returns differ from the fetched rows only
\* by the allocations and fulfillments of orders that the call persists; an
\* order whose order reference was null before the allocation (nulled by the
\* error policy or as a duplicate number) leaves the snapshot unchanged and
\* takes nothing from what later orders can allocate.
C24_NulledOrdersLeaveStock ==
    /\ (pc = "save_data" /\ stock_update_policy # SKIP /\ WithinCap) =>
            stocks = SnapshotOf(NotCritical(Len(orders)) \cap WithOrder)
    /\ (pc = "handle_stocks_loop" /\ WithinCap) =>
            stocks_map = SnapshotOf(NotCritical(idx - 1) \cap WithOrder)

\* a stock row with 0 <= quantity_allocated <= quantity
ValidRow(row) == 0 <= row.quantity_allocated /\ row.quantity_allocated <= row.quantity

\* C25: under UPDATE, when every fetched stock row starts with
\* 0 <= quantity_allocated <= quantity, every row of the committed snapshot
\* keeps quantity >= 0 and quantity_allocated <= quantity after any batch.
C25_StockRowsStayValid ==
    (/\ stock_update_policy = UPDATE
     /\ WithinCap
     /\ pc \in {"handle_stocks_loop", "save_data"}
     /\ \A key \in DOMAIN db_stocks : ValidRow(db_stocks[key])) =>
        /\ \A key \in DOMAIN stocks_map : ValidRow(stocks_map[key])
        /\ pc = "save_data" => \A key \in DOMAIN stocks : ValidRow(stocks[key])

\* the positions (from 0) of the codes of order k that are not in the cache
MissingCodes(k) ==
    {i \in 0..(Len(orders_input[k].gift_cards) - 1) :
        IsNone(Lookup(object_storage, Key("GiftCard", "code", orders_input[k].gift_cards[i + 1])))}

\* the gift card errors of order k, in order
GiftCardErrors(k) ==
    SelectSeq(orders[k].errors,
              LAMBDA e : e.code = "NOT_FOUND" /\ e.path.field = "gift_cards")

\* C28: for every gift card code of an input order that is not in the lookup
\* cache, the path of its NOT_FOUND error is "gift_cards.[i]" with i the
\* position of the code in the order's gift_cards list, for every mix of
\* found and missing codes.
C28_GiftCardErrorPath ==
    Done =>
        \A k \in 1..Len(orders) :
            /\ Len(GiftCardErrors(k)) = Cardinality(MissingCodes(k))
            /\ \A i \in MissingCodes(k) :
                HasError(orders[k].errors, "NOT_FOUND", P2("gift_cards", i))

\* order k names a shipping method and no shipping_price
PricedByListing(k) ==
    /\ orders_input[k].delivery_method.shipping_method_id # 0
    /\ IsNone(orders_input[k].delivery_method.shipping_price)

\* the price of the listing of order k's shipping method in order k's channel,
\* 0 when there is none
OwnListingPrice(k) ==
    Let(ChannelListingPrice(orders_input[k].delivery_method.shipping_method_id,
                            orders[k].channel[1].id), LAMBDA price :
        IF IsNone(price) THEN 0 ELSE price[1])

\* C27: for every order with a shipping method and no explicit
\* shipping_price, the shipping net price of make_order_calculations is the
\* price of the method's channel listing in the order's own channel (0 when
\* there is none), also when an earlier order of the batch used the method in
\* another channel: the price sub-cache never changes the result.
C27_ShippingPriceOfOwnChannel ==
    WithinCap =>
        \A k \in 1..Len(orders) :
            (PricedByListing(k) /\ ~IsNone(orders[k].order)) =>
                orders[k].order[1].shipping_price_net_amount = OwnListingPrice(k)

\* no call is running on the buffer
Quiescent == \A c \in DOMAIN clients : clients[c].op = "idle"

\* C29: for a RedisBuffer used by one client, put_events returns the number of
\* events discarded because of the call (events of the input that never enter
\* the buffer plus older events trimmed out): events put = events still
\* buffered + events popped + sum of the returned counts, for every
\* max_size >= 1 and every input length, also over max_size.
C29_PutEventsCountsDiscarded ==
    (Quiescent /\ DOMAIN clients = {1}) =>
        last_event = Len(redis) + Len(returned) + SumSeq(put_returns)

\* C30: with producers and consumers on the same key, under every
\* interleaving of the LPUSH, LTRIM and RPOP commands, every event RPOP
\* removes from the list is returned to exactly one consumer: none is
\* returned twice and none is removed without being returned.
C30_RemovedEventsReturnedOnce ==
    /\ \A i, j \in 1..Len(returned) : returned[i] = returned[j] => i = j
    /\ \A i \in 1..Len(returned) : encode(returned[i]) \in Range(removed)
    /\ Quiescent => \A i \in 1..Len(removed) : decode(removed[i]) \in Range(returned)

\* what the persisted orders of call c allocate on a stock row and take from it
CallAllocated(c, key) ==
    SumSeq([k \in 1..Len(calls[c].orders) |->
        IF IsNone(calls[c].orders[k].order) THEN 0
        ELSE SumSeq([n \in 1..Len(calls[c].orders[k].lines) |->
                IF StockKey(calls[c].orders[k].lines[n].variant_id,
                            calls[c].orders[k].lines[n].warehouse) = key
                THEN calls[c].orders[k].lines[n].quantity
                        - orderline_quantityfulfilled(calls[c].orders[k],
                                                      calls[c].orders[k].lines[n].id)
                ELSE 0])])

CallFulfilled(c, key) ==
    SumSeq([k \in 1..Len(calls[c].orders) |->
        IF IsNone(calls[c].orders[k].order) THEN 0
        ELSE SumSeq([n \in 1..Len(calls[c].orders[k].lines) |->
                IF StockKey(calls[c].orders[k].lines[n].variant_id,
                            calls[c].orders[k].lines[n].warehouse) = key
                THEN orderline_quantityfulfilled(calls[c].orders[k],
                                                 calls[c].orders[k].lines[n].id)
                ELSE 0])])

AllCommitted == calls # <<>> /\ \A c \in DOMAIN calls : calls[c].pc = "done"

\* C26: two OrderBulkCreate calls that run at the same time in separate
\* transactions with policy UPDATE on the same stock row never both persist
\* orders whose combined allocation exceeds the row's available quantity, and
\* the stock values written by one call never overwrite the update written
\* by the other.
C26_ConcurrentCallsKeepStock ==
    AllCommitted =>
        \A key \in DOMAIN initial_stocks :
            /\ SumSeq([c \in 1..Len(calls) |-> CallAllocated(c, key)])
                <= initial_stocks[key].quantity - initial_stocks[key].quantity_allocated
            /\ stock_table[key].quantity
                = initial_stocks[key].quantity
                    - SumSeq([c \in 1..Len(calls) |-> CallFulfilled(c, key)])

====
